---------------------------- MODULE Spec2Model ----------------------------
(***************************************************************************)
(* Model of the content curation pipeline of the Indian startup news bot:  *)
(* ContentCuratorAgent (src/content_curator.py), the keyword scoring of    *)
(* NewsCollectorAgent (src/news_collector.py) and the story selection      *)
(* called from main (src/main.py).                                         *)
(*                                                                         *)
(* Texts are strings; the substring tests and counts of the code are       *)
(* computed character by character on the lower-cased text, against the    *)
(* keyword tables copied from the source.                                  *)
(***************************************************************************)
EXTENDS Integers, Sequences, FiniteSets, TLC

(***************************************************************************)
(* Keyword tables                                                          *)
(***************************************************************************)

\* ContentCuratorAgent._load_startup_keywords
startup_keywords ==
  << "startup", "startups", "entrepreneur", "entrepreneurship", "venture capital",
     "vc", "funding", "investment", "investor", "seed funding",
     "series a", "series b", "series c", "ipo", "unicorn",
     "decacorn", "valuation", "fintech", "edtech", "healthtech",
     "agritech", "foodtech", "mobility", "e-commerce", "saas",
     "b2b", "b2c", "marketplace", "platform", "innovation",
     "technology", "digital", "mobile app", "artificial intelligence", "machine learning",
     "blockchain", "cryptocurrency", "IoT", "AR", "VR",
     "incubator", "accelerator", "mentor", "bootstrap", "pivot",
     "scale", "growth hacking", "product market fit", "mvp", "minimum viable product" >>

\* ContentCuratorAgent._load_indian_terms
indian_startup_terms ==
  << "india", "indian", "mumbai", "delhi", "bangalore",
     "bengaluru", "hyderabad", "chennai", "pune", "kolkata",
     "ahmedabad", "surat", "jaipur", "lucknow", "kanpur",
     "nagpur", "indore", "thane", "bhopal", "visakhapatnam",
     "pimpri", "patna", "vadodara", "ghaziabad", "ludhiana",
     "agra", "nashik", "faridabad", "meerut", "rajkot",
     "kalyan", "vasai", "varanasi", "srinagar", "aurangabad",
     "dhanbad", "amritsar", "navi mumbai", "allahabad", "howrah",
     "gwalior", "jabalpur", "coimbatore", "vijayawada", "jodhpur",
     "madurai", "raipur", "kota", "guwahati", "chandigarh",
     "solapur", "hubli", "tiruchirappalli", "bareilly", "mysore",
     "tiruppur", "gurgaon", "noida", "bhubaneswar", "salem",
     "mira bhayandar", "thiruvananthapuram", "bhiwandi", "saharanpur", "gorakhpur",
     "guntur", "bikaner", "amravati", "noida", "jamshedpur",
     "bhilai", "warangal", "cuttack", "firozabad", "kochi",
     "bhavnagar", "dehradun", "durgapur", "asansol", "rourkela",
     "nanded", "kolhapur", "ajmer", "akola", "gulbarga",
     "jamnagar", "ujjain", "loni", "siliguri", "jhansi",
     "ulhasnagar", "nellore", "jammu", "sangli miraj kupwad", "belgaum",
     "mangalore", "ambattur", "tirunelveli", "malegaon", "gaya",
     "jalgaon", "udaipur", "maheshtala" >>

\* The keys of the dict of _load_category_keywords, in insertion order
CategoryNames ==
  << "fintech", "edtech", "healthtech", "ecommerce", "mobility", "agritech", "proptech", "enterprise" >>

\* ContentCuratorAgent._load_category_keywords
category_keywords ==
  [
    fintech |->
     << "fintech", "financial technology", "payments", "digital payments",
        "upi", "wallet", "neobank", "lending",
        "credit", "insurance", "insurtech", "wealthtech",
        "robo advisor", "cryptocurrency", "blockchain", "digital banking",
        "payment gateway", "pos", "point of sale", "merchant",
        "acquirer", "settlement" >>,
    edtech |->
     << "edtech", "education technology", "e-learning", "online learning",
        "mooc", "lms", "learning management", "upskilling",
        "reskilling", "skill development", "test prep", "coaching",
        "tutoring", "educational content", "gamification", "adaptive learning" >>,
    healthtech |->
     << "healthtech", "telemedicine", "digital health", "health tech",
        "medical technology", "diagnostics", "healthcare", "telehealth",
        "medical devices", "pharma", "biotechnology", "wellness",
        "mental health", "fitness", "nutrition", "medtech" >>,
    ecommerce |->
     << "e-commerce", "ecommerce", "online retail", "marketplace",
        "shopping", "consumer", "d2c", "direct to consumer",
        "retail tech", "fashion", "beauty", "electronics",
        "home decor", "furniture", "grocery", "food delivery" >>,
    mobility |->
     << "mobility", "transportation", "logistics", "supply chain",
        "delivery", "ride sharing", "cab", "taxi",
        "auto", "bike taxi", "electric vehicle", "ev",
        "autonomous", "fleet management", "last mile", "warehousing" >>,
    agritech |->
     << "agritech", "agriculture technology", "farming", "precision agriculture",
        "farm tech", "rural", "farmer", "crop",
        "livestock", "agricultural", "food security", "supply chain agriculture" >>,
    proptech |->
     << "proptech", "real estate", "property", "housing",
        "rental", "commercial real estate", "construction tech", "smart city",
        "urban planning", "facility management" >>,
    enterprise |->
     << "enterprise", "b2b", "business to business", "saas",
        "software as a service", "erp", "crm", "hr tech",
        "hrtech", "payroll", "compliance", "automation",
        "productivity", "collaboration", "workflow" >>
  ]

(***************************************************************************)
(* Text primitives of Python: str.lower, the `in` test and str.count       *)
(***************************************************************************)

UpperCase == "ABCDEFGHIJKLMNOPQRSTUVWXYZ"
LowerCase == "abcdefghijklmnopqrstuvwxyz"

\* str.lower of one character (the texts are ASCII)
LowerChar(c) ==
  IF \E k \in 1..Len(UpperCase) : SubSeq(UpperCase, k, k) = c
    THEN LET k == CHOOSE j \in 1..Len(UpperCase) : SubSeq(UpperCase, j, j) = c
         IN  SubSeq(LowerCase, k, k)
    ELSE c

RECURSIVE LowerRange(_, _, _)
\* the characters lo..hi of s, lower-cased (halving keeps the recursion shallow)
LowerRange(s, lo, hi) ==
  IF lo > hi THEN ""
  ELSE IF lo = hi THEN LowerChar(SubSeq(s, lo, lo))
  ELSE LET mid == (lo + hi) \div 2
       IN  LowerRange(s, lo, mid) \o LowerRange(s, mid + 1, hi)

\* str.lower
Lower(s) == LowerRange(s, 1, Len(s))

\* kw occurs in text at position i
MatchAt(kw, text, i) ==
  /\ i + Len(kw) - 1 <= Len(text)
  /\ SubSeq(text, i, i + Len(kw) - 1) = kw

\* `kw in text`
Contains(kw, text) == \E i \in 1..Len(text) : MatchAt(kw, text, i)

RECURSIVE Scan(_, _, _, _, _)
\* The left-to-right scan of str.count over the positions lo..hi: `from` is
\* the first position at which an occurrence may start (an occurrence found
\* at i moves it to i + len(kw), so that occurrences do not overlap).
\* Returns <<occurrences counted, from after hi>>.
Scan(kw, text, lo, hi, from) ==
  IF lo > hi THEN <<0, from>>
  ELSE IF lo = hi
    THEN IF lo >= from /\ MatchAt(kw, text, lo)
           THEN <<1, lo + Len(kw)>> ELSE <<0, from>>
  ELSE LET mid == (lo + hi) \div 2
           left == Scan(kw, text, lo, mid, from)
           right == Scan(kw, text, mid + 1, hi, left[2])
       IN  <<left[1] + right[1], right[2]>>

\* text.count(kw): the occurrences of kw in text that do not overlap,
\* scanning from the left (the keywords are not empty)
Count(kw, text) == Scan(kw, text, 1, Len(text), 1)[1]

RECURSIVE SumOver(_, _, _)
\* sum of f[k] for k in i..n
SumOver(f, i, n) ==
  IF i > n THEN 0
  ELSE IF i = n THEN f[i]
  ELSE LET mid == (i + n) \div 2
       IN  SumOver(f, i, mid) + SumOver(f, mid + 1, n)

\* the f"{article.title} {article.content}".lower() of the scoring methods
ArticleText(article) == Lower(article.title \o " " \o article.content)

(***************************************************************************)
(* ContentCuratorAgent: scoring, keywords, categories                      *)
(***************************************************************************)

\* "Assume max 3 occurrences per keyword"
MaxOccurrencesPerKeyword == 3
\* "Assume max 2 occurrences per term"
MaxOccurrencesPerTerm == 2
\* the weights 0.7 and 0.3 of the combination, in tenths
StartupWeightTenths == 7
IndiaWeightTenths == 3
\* the admission threshold 0.3 of process_articles, in tenths
RelevanceThresholdTenths == 3
\* "At least 2 keyword matches"
CategoryThreshold == 2

\* startup_score with a keyword counted once however often it occurs
StartupScore_Presence(text) ==
  SumOver([k \in 1..Len(startup_keywords) |->
             IF Contains(Lower(startup_keywords[k]), text) THEN 1 ELSE 0],
          1, Len(startup_keywords))

\* startup_score of _calculate_relevance_score
StartupScore(text) ==
  SumOver([k \in 1..Len(startup_keywords) |->
             IF Contains(Lower(startup_keywords[k]), text)
               THEN Count(Lower(startup_keywords[k]), text) ELSE 0],
          1, Len(startup_keywords))

\* india_score of _calculate_relevance_score
IndiaScore(text) ==
  SumOver([k \in 1..Len(indian_startup_terms) |->
             IF Contains(Lower(indian_startup_terms[k]), text)
               THEN Count(Lower(indian_startup_terms[k]), text) ELSE 0],
          1, Len(indian_startup_terms))

max_startup_score == Len(startup_keywords) * MaxOccurrencesPerKeyword
max_india_score == Len(indian_startup_terms) * MaxOccurrencesPerTerm

\* Relevance scores are the rationals n / ScoreDen, held as the numerator n.
ScoreDen == 10 * max_startup_score * max_india_score

Min(a, b) == IF a <= b THEN a ELSE b
Max(a, b) == IF a >= b THEN a ELSE b

\* 0.3 as a numerator over ScoreDen
RelevanceThreshold == RelevanceThresholdTenths * max_startup_score * max_india_score

\* _calculate_relevance_score with max for min in the two normalisations
_calculate_relevance_score_MaxForMin(article) ==
  LET text == ArticleText(article)
      normalized_startup == Max(StartupScore(text), max_startup_score) * max_india_score
      normalized_india == Max(IndiaScore(text), max_india_score) * max_startup_score
  IN  Min(normalized_startup * StartupWeightTenths + normalized_india * IndiaWeightTenths,
          ScoreDen)

\* _calculate_relevance_score: min(S/max,1)*0.7 + min(I/max,1)*0.3, capped at 1
_calculate_relevance_score(article) ==
  LET text == ArticleText(article)
      startup_score == StartupScore(text)
      india_score == IndiaScore(text)
      normalized_startup ==
        IF max_startup_score > 0
          THEN Min(startup_score, max_startup_score) * max_india_score ELSE 0
      normalized_india ==
        IF max_india_score > 0
          THEN Min(india_score, max_india_score) * max_startup_score ELSE 0
      final_score == normalized_startup * StartupWeightTenths
                       + normalized_india * IndiaWeightTenths
  IN  Min(final_score, ScoreDen)

\* the list `keywords` after the two loops of _extract_keywords: the entries
\* of the tables that the text holds, appended in the order of the tables
AppendedKeywords(text) ==
  LET Present(entry) == Contains(Lower(entry), text)
  IN  SelectSeq(startup_keywords, Present) \o SelectSeq(indian_startup_terms, Present)

\* the list returned as it is, without list(set(...))
ListOfSet_Keep(list) ==
  [t \in {list[i] : i \in DOMAIN list} |-> Cardinality({i \in DOMAIN list : list[i] = t})]

\* list(set(list)): a list in no particular order, held as the number of times
\* each of its elements is in it
ListOfSet(list) == [t \in {list[i] : i \in DOMAIN list} |-> 1]

\* _extract_keywords: the elements of list(set(keywords))
_extract_keywords(article) == DOMAIN ListOfSet(AppendedKeywords(ArticleText(article)))

\* the score of one category with a keyword counted once however often it occurs
CategoryScore_Presence(category, text) ==
  LET keywords == category_keywords[category]
  IN  SumOver([k \in 1..Len(keywords) |->
                 IF Contains(Lower(keywords[k]), text) THEN 1 ELSE 0],
              1, Len(keywords))

\* the score of one category in _classify_article
CategoryScore(category, text) ==
  LET keywords == category_keywords[category]
  IN  SumOver([k \in 1..Len(keywords) |->
                 IF Contains(Lower(keywords[k]), text)
                   THEN Count(Lower(keywords[k]), text) ELSE 0],
              1, Len(keywords))

RECURSIVE ClassifyFrom(_, _)
ClassifyFrom(text, c) ==
  IF c > Len(CategoryNames) THEN <<>>
  ELSE (IF CategoryScore(CategoryNames[c], text) >= CategoryThreshold
          THEN <<CategoryNames[c]>> ELSE <<>>)
       \o ClassifyFrom(text, c + 1)

\* _classify_article without the fallback to ['general']
_classify_article_NoFallback(article) == ClassifyFrom(ArticleText(article), 1)

\* _classify_article
_classify_article(article) ==
  LET categories == ClassifyFrom(ArticleText(article), 1)
  IN  IF categories # <<>> THEN categories ELSE <<"general">>

(***************************************************************************)
(* The raw records fed to process_articles                                 *)
(***************************************************************************)

RECURSIVE Rep(_, _)
\* s repeated n times
Rep(s, n) ==
  IF n = 0 THEN ""
  ELSE IF n = 1 THEN s
  ELSE Rep(s, n \div 2) \o Rep(s, n - (n \div 2))

TitleA == "Flipkart startup funding"
TitlePlain == "Local weather"
\* the body of Scenario A
ContentA == "Flipkart raises $1 billion in Series H funding"
\* no startup keyword and no India term
ContentPlain == "Rain is expected. We stay home!"
\* 65 startup keyword occurrences: relevance just above 0.3
ContentRich == Rep("VC startups VC. ", 13)
\* 64 startup keyword occurrences: relevance just below 0.3
ContentBelow == Rep("VC startups VC. ", 12) \o "VC startups. "
\* 66 startup keyword occurrences, 11 of "fintech" and 11 of "saas"
ContentFintech == Rep("Fintech SaaS VC startups. ", 11)
\* 206 India term occurrences and no startup keyword: relevance exactly 0.3
ContentIndia == Rep("Indian ", 103)

RawRecords ==
  { [title |-> TitleA, content |-> ContentFintech, url |-> "u2", source |-> "Inc42"],
    [title |-> TitlePlain, content |-> ContentIndia, url |-> "u1", source |-> "Inc42"],
    [title |-> TitlePlain, content |-> ContentBelow, url |-> "u2", source |-> "YourStory"],
    [title |-> TitleA, content |-> ContentA, url |-> "u2", source |-> "VCCircle"],
    [title |-> TitlePlain, content |-> ContentPlain, url |-> "u1", source |-> "VCCircle"],
    [content |-> ContentRich, url |-> "u2", source |-> "YourStory"],
    [title |-> TitleA, content |-> "", url |-> "u1", source |-> "Inc42"],
    [title |-> TitleA, content |-> ContentRich, source |-> "YourStory"] }

\* dict.get(key, default)
Get(raw, key, default) == IF key \in DOMAIN raw THEN raw[key] ELSE default

(***************************************************************************)
(* Python values and datetimes                                             *)
(***************************************************************************)

\* A value of a raw record is held as the text str() gives for it; where it
\* is not a str, the record names its type under `types`.
TypeOf(raw, key) ==
  IF "types" \in DOMAIN raw /\ key \in DOMAIN raw.types THEN raw.types[key] ELSE "str"

\* bool(value) of a value of the type and the text
Truthy(type, text) ==
  CASE type = "str" -> text # ""
    [] type = "NoneType" -> FALSE
    [] type = "int" -> text # "0"
    [] type = "list" -> text # "[]"
    [] OTHER -> TRUE

\* hash(value) does not raise
Hashable(type) == type \notin {"list", "dict"}

\* the character of s at position i, "" behind the end
CharAt(s, i) == IF i >= 1 /\ i <= Len(s) THEN SubSeq(s, i, i) ELSE ""

\* the digits, in the order of their values
Digits == "0123456789"

\* the character of s at position i is a digit: \d
IsDigitAt(s, i) == \E k \in 1..10 : SubSeq(Digits, k, k) = CharAt(s, i)

\* the number written by the n digits of s from position i on
RECURSIVE NumberAt(_, _, _)
NumberAt(s, i, n) ==
  IF n = 0 THEN 0
  ELSE 10 * NumberAt(s, i, n - 1)
       + (CHOOSE k \in 1..10 : SubSeq(Digits, k, k) = CharAt(s, i + n - 1)) - 1

\* \s of the regular expressions
Whitespace == {" ", "\t", "\n"}

\* datetime(year, month, day, hour, minute, second, microsecond)
DateTime(y, mo, d, h, mi, s, us) ==
  [year |-> y, month |-> mo, day |-> d, hour |-> h, minute |-> mi, second |-> s,
   microsecond |-> us]

\* the days of the month of the year, which datetime() admits
DaysInMonth(y, mo) ==
  IF mo = 2 THEN (IF (y % 4 = 0 /\ y % 100 # 0) \/ y % 400 = 0 THEN 29 ELSE 28)
  ELSE IF mo \in {4, 6, 9, 11} THEN 30 ELSE 31

\* the formats _parse_date tries, in its order; a format is its directives
\* and literal characters
DateFormats == <<
  <<"%Y", "-", "%m", "-", "%d", " ", "%H", ":", "%M", ":", "%S">>,
  <<"%Y", "-", "%m", "-", "%d">>,
  <<"%d", "/", "%m", "/", "%Y">>,
  <<"%m", "/", "%d", "/", "%Y">>,
  <<"%Y", "-", "%m", "-", "%d", "T", "%H", ":", "%M", ":", "%S", "Z">>,
  <<"%Y", "-", "%m", "-", "%d", "T", "%H", ":", "%M", ":", "%S">> >>

\* What the directive matches of s at position i: <<matched, value, next position>>.
\* The two-digit alternatives of the patterns admit: %m 1[0-2]|0[1-9],
\* %d 3[0-1]|[1-2]\d|0[1-9], %H 2[0-3]|[0-1]\d, %M [0-5]\d, %S 6[0-1]|[0-5]\d.
\* The alternatives of the pattern are tried in their order; the one-digit
\* alternative is [1-9] for %m and %d, \d for the others.
MatchDirective(directive, s, i) ==
  IF directive = "%Y"
    THEN IF \A k \in 0..3 : IsDigitAt(s, i + k)
           THEN <<TRUE, NumberAt(s, i, 4), i + 4>> ELSE <<FALSE, 0, i>>
  ELSE IF IsDigitAt(s, i) /\ IsDigitAt(s, i + 1)
            /\ NumberAt(s, i, 2) \in (CASE directive = "%m" -> 1..12
                                        [] directive = "%d" -> 1..31
                                        [] directive = "%H" -> 0..23
                                        [] directive = "%M" -> 0..59
                                        [] directive = "%S" -> 0..61)
    THEN <<TRUE, NumberAt(s, i, 2), i + 2>>
  ELSE IF IsDigitAt(s, i)
            /\ NumberAt(s, i, 1) \in (IF directive \in {"%m", "%d"} THEN 1..9 ELSE 0..9)
    THEN <<TRUE, NumberAt(s, i, 1), i + 1>>
  ELSE IF directive = "%d" /\ CharAt(s, i) = " " /\ IsDigitAt(s, i + 1)
            /\ NumberAt(s, i + 1, 1) \in 1..9
    THEN <<TRUE, NumberAt(s, i + 1, 1), i + 2>>
  ELSE <<FALSE, 0, i>>

RECURSIVE SkipWhitespace(_, _)
\* the position behind the run of whitespace of s at position i
SkipWhitespace(s, i) ==
  IF CharAt(s, i) \in Whitespace THEN SkipWhitespace(s, i + 1) ELSE i

\* What a literal character of the format matches of s at position i:
\* <<matched, next position>>. A space of the format stands for \s+; letters
\* match in either case.
MatchLiteral(c, s, i) ==
  IF c = " "
    THEN <<CharAt(s, i) \in Whitespace, SkipWhitespace(s, i)>>
  ELSE <<CharAt(s, i) # "" /\ LowerChar(CharAt(s, i)) = LowerChar(c), i + 1>>

RECURSIVE MatchFormat(_, _, _, _, _)
\* The match of the format from its token f on against s from position i on,
\* with the fields found so far: <<matched, fields, end of the match>>.
MatchFormat(fmt, f, s, i, fields) ==
  IF f > Len(fmt) THEN <<TRUE, fields, i>>
  ELSE IF fmt[f] \in {"%Y", "%m", "%d", "%H", "%M", "%S"}
    THEN LET Directive(m) ==
               IF m[1]
                 THEN MatchFormat(fmt, f + 1, s, m[3],
                                  [fields EXCEPT ![SubSeq(fmt[f], 2, 2)] = m[2]])
                 ELSE <<FALSE, fields, i>>
         IN  Directive(MatchDirective(fmt[f], s, i))
  ELSE LET Literal(m) ==
             IF m[1] THEN MatchFormat(fmt, f + 1, s, m[2], fields)
             ELSE <<FALSE, fields, i>>
       IN  Literal(MatchLiteral(fmt[f], s, i))

\* datetime.strptime(date_str, fmt): [ok |-> the parse succeeded, value |-> the
\* datetime]; ok is FALSE where strptime raises ValueError (no match,
\* unconverted data remains, or the fields are no date).
strptime(date_str, fmt) ==
  LET Parsed(m) ==
        IF /\ m[1]
           /\ m[3] = Len(date_str) + 1
           /\ m[2].Y >= 1
           /\ m[2].d <= DaysInMonth(m[2].Y, m[2].m)
           /\ m[2].S <= 59
          THEN [ok |-> TRUE,
                value |-> DateTime(m[2].Y, m[2].m, m[2].d, m[2].H, m[2].M, m[2].S, 0)]
          ELSE [ok |-> FALSE, value |-> DateTime(1, 1, 1, 0, 0, 0, 0)]
  IN  Parsed(MatchFormat(fmt, 1, date_str, 1,
                         [Y |-> 1900, m |-> 1, d |-> 1, H |-> 0, M |-> 0, S |-> 0]))

\* the loop over the formats with the last format that succeeds winning
TryFormats_LastMatch(date_str, k, now) ==
  LET matching == {j \in k..Len(DateFormats) : strptime(date_str, DateFormats[j]).ok}
  IN  IF matching = {} THEN now
      ELSE strptime(date_str,
                    DateFormats[CHOOSE j \in matching : \A i \in matching : i <= j]).value

RECURSIVE TryFormats(_, _, _)
\* `for fmt in formats`: the parse by the first format that succeeds, from
\* format k on; `now` when none does
TryFormats(date_str, k, now) ==
  IF k > Len(DateFormats) THEN now
  ELSE LET Tried(r) == IF r.ok THEN r.value ELSE TryFormats(date_str, k + 1, now)
       IN  Tried(strptime(date_str, DateFormats[k]))

\* _parse_date with the fallback of a failed parse forgotten: the earliest date
_parse_date_MinFallback(type, text, now) ==
  IF type = "str" /\ text # "" THEN TryFormats(text, 1, DateTime(1, 1, 1, 0, 0, 0, 0))
  ELSE DateTime(1, 1, 1, 0, 0, 0, 0)

\* _parse_date(date_str), called at the time `now`, for a value of the type and
\* the text. A falsy value gives now. strptime raises TypeError for a value
\* that is no str, which the outer handler turns into now.
_parse_date(type, text, now) ==
  IF ~Truthy(type, text) THEN now
  ELSE IF type # "str" THEN now
  ELSE TryFormats(text, 1, now)

(***************************************************************************)
(* ContentCuratorAgent._generate_summary                                   *)
(***************************************************************************)

\* the characters of the class [.!?]
SentenceEnds == {".", "!", "?"}

\* where the pieces of re.split(r'[.!?]+', text) that are not empty begin
PieceStarts(text) ==
  {i \in 1..Len(text) : CharAt(text, i) \notin SentenceEnds /\ (i = 1 \/ CharAt(text, i - 1) \in SentenceEnds)}

\* the least element of a non-empty set of numbers
Least(S) == CHOOSE x \in S : \A y \in S : x <= y

RECURSIVE SkipWhitespaceBack(_, _)
\* the position before the run of whitespace of the text that ends at position j
SkipWhitespaceBack(text, j) ==
  IF CharAt(text, j) \in Whitespace THEN SkipWhitespaceBack(text, j - 1) ELSE j

\* the last position of the piece that begins at position i: before the next
\* character of [.!?], or the end of the text
PieceEnd(text, i) ==
  LET ends == {j \in (i + 1)..Len(text) : CharAt(text, j) \in SentenceEnds}
  IN  IF ends = {} THEN Len(text) ELSE Least(ends) - 1

\* s.strip() of the piece text[i..j]; "" when it holds whitespace only
StripPiece(text, i, j) ==
  LET first == SkipWhitespace(text, i)
  IN  IF first > j THEN "" ELSE SubSeq(text, first, SkipWhitespaceBack(text, j))

RECURSIVE SentencesFrom(_, _)
\* the stripped pieces that are not empty, in their order, for the piece
\* starts given
SentencesFrom(text, starts) ==
  IF starts = {} THEN <<>>
  ELSE LET i == Least(starts)
           s == StripPiece(text, i, PieceEnd(text, i))
       IN  (IF s = "" THEN <<>> ELSE <<s>>) \o SentencesFrom(text, starts \ {i})

\* _split_into_sentences(text)
_split_into_sentences(text) == SentencesFrom(text, PieceStarts(text))

\* the sentences kept verbatim: up to 3
MaxVerbatimSentences == 3
\* the sentences of an extract
SummarySentences == 3
\* points of a sentence per startup keyword and per India term it holds
StartupKeywordPoints == 2
IndiaTermPoints == 1
\* the bonus of the first sentences: 3 - i for the index i < 3
FirstSentences == 3

\* keyword.lower() and term.lower() of the tables
startup_keywords_lower == [k \in DOMAIN startup_keywords |-> Lower(startup_keywords[k])]
indian_startup_terms_lower ==
  [k \in DOMAIN indian_startup_terms |-> Lower(indian_startup_terms[k])]

\* the points of the lower-cased sentence of the index i (from 0)
SentencePoints(sentence_lower, i) ==
  StartupKeywordPoints
    * Cardinality({k \in DOMAIN startup_keywords_lower :
                     Contains(startup_keywords_lower[k], sentence_lower)})
  + IndiaTermPoints
    * Cardinality({k \in DOMAIN indian_startup_terms_lower :
                     Contains(indian_startup_terms_lower[k], sentence_lower)})
  + (IF i < FirstSentences THEN FirstSentences - i ELSE 0)

\* the score of the sentence of the index i (from 0)
SentenceScore(sentence, i) == SentencePoints(Lower(sentence), i)

\* The indices (from 1) of the top sentences: sorted by score, descending,
\* the sort keeping the order of equal scores, the first 3 taken.
TopSentences(scores) ==
  {i \in DOMAIN scores :
     Cardinality({j \in DOMAIN scores :
                    scores[j] > scores[i] \/ (scores[j] = scores[i] /\ j < i)})
       < SummarySentences}

RECURSIVE JoinFrom(_, _)
\* ' '.join of the sentences of the indices, in ascending order
JoinFrom(sentences, indices) ==
  IF indices = {} THEN ""
  ELSE LET i == Least(indices)
       IN  IF indices = {i} THEN sentences[i]
           ELSE sentences[i] \o " " \o JoinFrom(sentences, indices \ {i})

\* the extract, made for every content
Summarise_AlwaysExtract(content, sentences) ==
  JoinFrom(sentences,
           TopSentences([i \in DOMAIN sentences |-> SentenceScore(sentences[i], i - 1)]))

\* the summary of a content of the sentences
Summarise(content, sentences) ==
  IF Len(sentences) <= MaxVerbatimSentences
    THEN content
    ELSE JoinFrom(sentences,
                  TopSentences([i \in DOMAIN sentences |->
                                  SentenceScore(sentences[i], i - 1)]))

\* _generate_summary(article), for a content of the type and the text:
\* [raised |-> an exception leaves the method, value |-> the summary].
\* A str raises nothing in the try block. For an int, re.split raises
\* TypeError and the handler's len(article.content) raises TypeError again,
\* which leaves the method.
_generate_summary(type, content) ==
  IF type # "str" THEN [raised |-> TRUE, value |-> ""]
  ELSE [raised |-> FALSE, value |-> Summarise(content, _split_into_sentences(content))]

(***************************************************************************)
(* Raw records with dates, of other shapes, and of values that are no str  *)
(***************************************************************************)

\* 65 startup keyword occurrences in a title
TitleRich == Rep("VC startups VC ", 13)

\* a record that is admitted, without its date
Dated(url) == [title |-> TitleA, content |-> ContentFintech, url |-> url, source |-> "Inc42"]

\* a record with the published_date of the text and a type
DatedAs(url, type, text) ==
  [title |-> TitleA, content |-> ContentFintech, url |-> url, source |-> "Inc42",
   published_date |-> text, types |-> [published_date |-> type]]

\* a record as _fetch_from_source of NewsCollectorAgent builds it, with the
\* relevance_score _filter_startup_articles adds
CollectorRecord ==
  [title |-> TitleA, summary |-> ContentFintech, url |-> "u3", source |-> "Inc42",
   published |-> "2024-01-15T10:30:00",
   raw_content |-> TitleA \o " " \o ContentFintech,
   relevance_score |-> "5",
   types |-> [published |-> "datetime", relevance_score |-> "int"]]

\* an element of the list that is no mapping: a str
NotMapping == [not_mapping |-> "str"]

\* the records whose date parses, fails to parse or is no str
DateRecords ==
  { DatedAs("u1", "str", "2024-01-15 10:30:00"),
    Dated("u1"),
    DatedAs("u2", "str", ""),
    DatedAs("u1", "str", "15 January 2024"),
    DatedAs("u2", "str", "2024-02-30"),
    DatedAs("u1", "datetime", "2024-01-15T10:30:00") }

\* the records whose processing raises: at raw_article.get, at the test of the
\* url (a list is not hashable), in _generate_summary (an int as content)
FailingRecords ==
  { NotMapping,
    [title |-> TitleA, content |-> ContentFintech, url |-> "['u1']", source |-> "Inc42",
     types |-> [url |-> "list"]],
    [title |-> TitleRich, content |-> "5", url |-> "u2", source |-> "Inc42",
     types |-> [content |-> "int"]] }

\* a record whose title holds the characters that JSON escapes
QuotedRecord ==
  [title |-> "Flipkart \"startup\" funding \\ IPO\n", content |-> ContentIndia, url |-> "u4",
   source |-> "Your\\Story"]

ScriptRecords == DateRecords \cup FailingRecords \cup {CollectorRecord, QuotedRecord}

(***************************************************************************)
(* ContentCuratorAgent.process_articles                                    *)
(***************************************************************************)

\* the longest batch handed to one call of process_articles
MaxBatch == 2

VARIABLES
  processed_urls,      \* self.processed_urls
  raw_articles,        \* the argument of the last call of process_articles
  processed_articles,  \* the list the last call returned
  trace,               \* per record of the last call: what the loop did with it
  returned,            \* every Article returned so far, in order
  raised,              \* the exception the last call let through, or "none"
  clock                \* datetime.now()

curatorVars ==
  <<processed_urls, raw_articles, processed_articles, trace, returned, raised, clock>>

VARIABLES
  sel_pc,        \* "idle", "ready" (before the call of curate_top_stories) or "done"
  sel_articles,  \* the scored articles handed to curate_top_stories
  sel_target,    \* the target count N
  top_stories,   \* the list curate_top_stories returned
  greedy_picked  \* how many of top_stories the greedy pass accepted

selectorVars == <<sel_pc, sel_articles, sel_target, top_stories, greedy_picked>>

VARIABLES
  col_pc,        \* "idle", "ready" (before the articles are scored) or "scored"
  col_keyword,   \* the keyword added to the article
  col_articles,  \* <<the article, the same article with the keyword added>>
  col_filtered,  \* per article: whether the collector kept it, and its relevance_score
  col_importance \* per article: its importance score

collectorVars == <<col_pc, col_keyword, col_articles, col_filtered, col_importance>>

VARIABLES
  art_pc,              \* "idle", "ready", or "done" once the methods were applied
  art_title,           \* the title of the Article the methods are applied to
  art_content,         \* its content
  art_url,             \* its url
  art_summary,         \* what _generate_summary returned
  art_score,           \* what _calculate_relevance_score returned
  art_categories,      \* what _classify_article returned
  art_keywords         \* what _extract_keywords returned: how often it holds each keyword

articleVars ==
  <<art_pc, art_title, art_content, art_url, art_summary, art_score, art_categories,
    art_keywords>>

VARIABLES
  script_pc,           \* where the script that processes, saves and loads stands
  json_file,           \* the records of the JSON file, <<>> while there is none
  file_exists,         \* the JSON file exists
  save_result,         \* what save_articles_to_json returned
  loaded_articles      \* what load_articles_from_json returned

scriptVars == <<script_pc, json_file, file_exists, save_result, loaded_articles>>

VARIABLES
  main_pc,             \* where main stands
  main_articles,       \* how many articles collect_daily_news returned
  main_calls,          \* the methods of the agents called so far, in order
  main_error,          \* the exception main has caught, "" for none
  exit_status          \* the exit status of the process, -1 while it runs

mainVars == <<main_pc, main_articles, main_calls, main_error, exit_status>>

VARIABLES
  date_pc,             \* "idle", "ready", or "done" once _parse_date has returned
  date_str,            \* the argument of _parse_date
  parsed_date          \* what _parse_date returned

dateVars == <<date_pc, date_str, parsed_date>>

VARIABLES
  report_pc,           \* "idle", "ready", or "done" once the report was generated
  report_articles,     \* the list of Articles handed to the methods
  report_limit,        \* the limit handed to get_trending_keywords
  trending,            \* what get_trending_keywords returned
  ranked,              \* what rank_articles returned
  report               \* what generate_content_report returned

reportVars == <<report_pc, report_articles, report_limit, trending, ranked, report>>

VARIABLES
  dedup_pc,            \* "idle", "ready", or "done" once _remove_duplicates has returned
  all_articles,        \* the articles handed to _remove_duplicates
  unique_articles      \* what _remove_duplicates returned

dedupVars == <<dedup_pc, all_articles, unique_articles>>

\* the variables of the methods that are applied on their own
utilityVars == <<dateVars, reportVars, dedupVars>>

vars ==
  <<curatorVars, selectorVars, collectorVars, articleVars, scriptVars, mainVars, utilityVars>>

\* The scores, keywords and categories of the texts of RawRecords, computed
\* once by the operators above.
ScoredTexts ==
  {<<Get(r, "title", ""), Get(r, "content", "")>> : r \in RawRecords \cup ScriptRecords}

TextArticle(p) == [title |-> p[1], content |-> p[2]]

RelevanceOf == [p \in ScoredTexts |-> _calculate_relevance_score(TextArticle(p))]
KeywordsOf == [p \in ScoredTexts |-> _extract_keywords(TextArticle(p))]
CategoriesOf == [p \in ScoredTexts |-> _classify_article(TextArticle(p))]
CategoryScoreOf ==
  [p \in ScoredTexts |->
     [c \in {CategoryNames[k] : k \in 1..Len(CategoryNames)} |->
        CategoryScore(c, ArticleText(TextArticle(p)))]]

\* the summaries of the bodies of these texts, computed once
SummaryOf == [p \in ScoredTexts |-> _generate_summary("str", p[2])]

\* the element of raw_articles has the method get
IsMapping(raw) == "not_mapping" \notin DOMAIN raw

\* Article(title=raw.get('title', ''), content=..., url=..., source=...,
\* published_date=self._parse_date(raw.get('published_date'))), made at the
\* time clock; without the key get returns None
NewArticle(raw) ==
  [ title |-> Get(raw, "title", ""),
    content |-> Get(raw, "content", ""),
    url |-> Get(raw, "url", ""),
    source |-> Get(raw, "source", ""),
    published_date |-> _parse_date(IF "published_date" \in DOMAIN raw
                                     THEN TypeOf(raw, "published_date") ELSE "NoneType",
                                   Get(raw, "published_date", "None"), clock),
    summary |-> "",
    relevance_score |-> 0,
    categories |-> <<>>,
    keywords |-> {} ]

\* the membership test answering that the url was seen as soon as any url was
AlreadyProcessed_SeenAny(raw, urls) == "url" \in DOMAIN raw /\ urls # {}

\* `raw_article.get('url') in self.processed_urls`: without the key get
\* returns None, which is never in the set
AlreadyProcessed(raw, urls) == "url" \in DOMAIN raw /\ raw.url \in urls

\* MissingEssential without the test of the content
MissingEssential_NoContentCheck(article) ==
  article.title = "" \/ article.url = ""

\* `not article.title or not article.content or not article.url`
MissingEssential(article) ==
  article.title = "" \/ article.content = "" \/ article.url = ""

\* LowRelevance with `<=` for `<`
LowRelevance_Inclusive(article) == article.relevance_score <= RelevanceThreshold

\* self.processed_urls.add(article.url), forgotten
MarkProcessed_Forgotten(urls, article) == urls

\* self.processed_urls.add(article.url)
MarkProcessed(urls, article) == urls \cup {article.url}

\* `article.relevance_score < 0.3`
LowRelevance(article) == article.relevance_score < RelevanceThreshold

\* a failure that loses the Articles collected so far
Failed_LosesCollected(st, scored) ==
  [st EXCEPT !.out = <<>>,
             !.trace = Append(@, [branch |-> "failed", scored |-> scored,
                                  enriched |-> scored])]

\* `except Exception`: the error is logged and the loop goes on with the next
\* record; nothing was added for the record that failed
Failed(st, scored) ==
  [st EXCEPT !.trace = Append(@, [branch |-> "failed", scored |-> scored,
                                  enriched |-> scored])]

\* One iteration of the loop of process_articles on the raw record `raw`, from
\* the loop state st = [urls, out, trace]. A trace entry tells which branch
\* the iteration took and whether it computed the relevance score (scored)
\* and the keywords and categories (enriched).
ProcessOne(raw, st) ==
  IF ~IsMapping(raw) \/ ~Hashable(TypeOf(raw, "url"))
    \* AttributeError of raw_article.get, TypeError of the test of the url:
    \* `except Exception` goes on with the next record
    THEN Failed(st, FALSE)
  ELSE IF AlreadyProcessed(raw, st.urls)
    THEN [st EXCEPT !.trace = Append(@, [branch |-> "duplicate", scored |-> FALSE,
                                         enriched |-> FALSE])]
  ELSE
    LET Process(article) ==
        IF MissingEssential(article)
          THEN [st EXCEPT !.trace = Append(@, [branch |-> "missing", scored |-> FALSE,
                                               enriched |-> FALSE])]
        ELSE
          LET scored == [article EXCEPT
                           !.relevance_score = RelevanceOf[<<article.title, article.content>>]]
          IN
          IF LowRelevance(scored)
            THEN [st EXCEPT !.trace = Append(@, [branch |-> "low_relevance", scored |-> TRUE,
                                                 enriched |-> FALSE])]
          ELSE
            LET summary == IF TypeOf(raw, "content") = "str"
                             THEN SummaryOf[<<article.title, article.content>>]
                             ELSE _generate_summary(TypeOf(raw, "content"), article.content)
                done == [scored EXCEPT
                           !.keywords = KeywordsOf[<<article.title, article.content>>],
                           !.categories = CategoriesOf[<<article.title, article.content>>],
                           !.summary = summary.value]
            IN
            IF summary.raised
              \* the exception leaves _generate_summary: `except Exception` goes on
              \* with the next record
              THEN Failed(st, TRUE)
            ELSE
                [ urls |-> MarkProcessed(st.urls, done),
                  out |-> Append(st.out, done),
                  trace |-> Append(st.trace, [branch |-> "processed", scored |-> TRUE,
                                              enriched |-> TRUE]) ]
    IN  Process(NewArticle(raw))

RECURSIVE ProcessLoop(_, _, _)
\* `for raw_article in raw_articles`, from record i on
ProcessLoop(batch, i, st) ==
  IF i > Len(batch) THEN st
  ELSE ProcessLoop(batch, i + 1, ProcessOne(batch[i], st))

\* the batches of at most n raw records
Batches(n) == UNION {[1..k -> RawRecords] : k \in 0..n}

\* the time at which the curator is made
ClockStart == DateTime(2026, 11, 4, 18, 0, 0, 123456)

\* the loop begun with the set of seen urls made anew
LoopStart_FreshUrls(urls) == [urls |-> {}, out |-> <<>>, trace |-> <<>>]

\* `processed_articles = []`: the state in which the loop begins, with the urls
\* seen by the earlier calls
LoopStart(urls) == [urls |-> urls, out |-> <<>>, trace |-> <<>>]

\* an argument of process_articles: a list of the items, or a value that
\* cannot be iterated (None, a number)
PyList(items) == [iterable |-> TRUE, items |-> items]
NotIterable == [iterable |-> FALSE, items |-> <<>>]

\* the TypeError of `for raw_article in raw_articles` over None
NotIterableError == "TypeError: 'NoneType' object is not iterable"

\* process_articles(raw_articles). The `for` over a value that cannot be
\* iterated raises TypeError outside the try block: the call returns nothing.
process_articles(arg) ==
  IF arg.iterable
    THEN LET Return(st) ==
               /\ processed_urls' = st.urls
               /\ raw_articles' = arg.items
               /\ processed_articles' = st.out
               /\ trace' = st.trace
               /\ returned' = returned \o st.out
               /\ raised' = "none"
               /\ UNCHANGED <<clock, selectorVars, collectorVars, articleVars, mainVars, utilityVars>>
         IN  Return(ProcessLoop(arg.items, 1, LoopStart(processed_urls)))
    ELSE /\ raised' = NotIterableError
         /\ raw_articles' = <<>>
         /\ processed_articles' = <<>>
         /\ trace' = <<>>
         /\ UNCHANGED <<processed_urls, returned, clock, selectorVars, collectorVars,
                         articleVars, mainVars, utilityVars>>

\* ContentCuratorAgent.__init__: no URL seen, nothing returned yet
CuratorInit ==
  /\ processed_urls = {}
  /\ raw_articles = <<>>
  /\ processed_articles = <<>>
  /\ trace = <<>>
  /\ returned = <<>>
  /\ raised = "none"
  /\ clock = ClockStart

\* curate_top_stories is not being called
SelectorIdle ==
  /\ sel_pc = "idle"
  /\ sel_articles = <<>>
  /\ sel_target = 0
  /\ top_stories = <<>>
  /\ greedy_picked = 0

\* no article is being scored
CollectorIdle ==
  /\ col_pc = "idle"
  /\ col_keyword = ""
  /\ col_articles = <<>>
  /\ col_filtered = <<>>
  /\ col_importance = <<>>

ArticleIdle ==
  /\ art_pc = "idle"
  /\ art_title = ""
  /\ art_content = ""
  /\ art_url = ""
  /\ art_summary = ""
  /\ art_score = 0
  /\ art_categories = <<>>
  /\ art_keywords = <<>>

ScriptIdle ==
  /\ script_pc = "idle"
  /\ json_file = <<>>
  /\ file_exists = FALSE
  /\ save_result = FALSE
  /\ loaded_articles = <<>>

MainIdle ==
  /\ main_pc = "idle"
  /\ main_articles = 0
  /\ main_calls = <<>>
  /\ main_error = ""
  /\ exit_status = -1

\* _parse_date is not being applied
DateIdle ==
  /\ date_pc = "idle"
  /\ date_str = ""
  /\ parsed_date = <<>>

\* no report is being generated
ReportIdle ==
  /\ report_pc = "idle"
  /\ report_articles = <<>>
  /\ report_limit = 0
  /\ trending = <<>>
  /\ ranked = <<>>
  /\ report = <<>>

\* _remove_duplicates is not being applied
DedupIdle ==
  /\ dedup_pc = "idle"
  /\ all_articles = <<>>
  /\ unique_articles = <<>>

UtilityIdle == DateIdle /\ ReportIdle /\ DedupIdle

Init ==
  /\ CuratorInit /\ SelectorIdle /\ CollectorIdle /\ ArticleIdle /\ ScriptIdle /\ MainIdle
  /\ UtilityIdle

\* the batches a call may be handed
InputBatches == Batches(MaxBatch)

ProcessArticles ==
  /\ \E batch \in InputBatches : process_articles(PyList(batch))
  /\ UNCHANGED scriptVars

Next == ProcessArticles

Spec == Init /\ [][Next]_vars

(***************************************************************************)
(* Properties of process_articles                                          *)
(***************************************************************************)

\* the raw record carries a non-empty title, content and url
Valid(raw) ==
  /\ {"title", "content", "url"} \subseteq DOMAIN raw
  /\ raw.title # "" /\ raw.content # "" /\ raw.url # ""

\* the relevance score of the text of a valid raw record
ScoreOfRaw(raw) == RelevanceOf[<<raw.title, raw.content>>]

\* a valid raw record whose relevance is at least 0.3
Admissible(raw) == Valid(raw) /\ ScoreOfRaw(raw) >= RelevanceThreshold

\* the Article a was made from the raw record raw
ArticleFrom(raw, a) ==
  /\ a.title = Get(raw, "title", "") /\ a.content = Get(raw, "content", "")
  /\ a.url = Get(raw, "url", "") /\ a.source = Get(raw, "source", "")

\* C1: no two Articles returned by any sequence of process_articles calls
\* share a url, and every admissible record of the last batch, however often
\* it was ingested in this call or in earlier ones, has exactly one returned
\* Article under its url.
C1_IdempotentIngestion ==
  /\ \A i, j \in DOMAIN returned : i # j => returned[i].url # returned[j].url
  /\ \A k \in DOMAIN raw_articles :
       Admissible(raw_articles[k]) =>
         Cardinality({i \in DOMAIN returned : returned[i].url = raw_articles[k].url}) = 1

\* an admissible record was ingested twice and one Article came of it
C1_Witness ==
  \E r \in RawRecords :
    /\ Admissible(r)
    /\ raw_articles = <<r, r>>
    /\ Len(returned) = 1 /\ ArticleFrom(r, returned[1])

\* C2: no returned Article has an empty title, content or url; a record with
\* a missing or empty title, content or url is skipped before its relevance
\* is scored; the loop still handles every record of the batch, so that every
\* admissible record of the batch ends with its url processed.
C2_MissingFieldsSkipped ==
  /\ \A i \in DOMAIN returned :
       returned[i].title # "" /\ returned[i].content # "" /\ returned[i].url # ""
  /\ Len(trace) = Len(raw_articles)
  /\ \A k \in DOMAIN raw_articles :
       /\ ~Valid(raw_articles[k]) =>
            /\ ~trace[k].scored
            /\ \A i \in DOMAIN processed_articles :
                 ~ArticleFrom(raw_articles[k], processed_articles[i])
       /\ Admissible(raw_articles[k]) => raw_articles[k].url \in processed_urls

\* a record without title is followed in its batch by a record that is returned
C2_Witness ==
  /\ Len(raw_articles) = 2
  /\ "title" \notin DOMAIN raw_articles[1]
  /\ Len(processed_articles) = 1
  /\ ArticleFrom(raw_articles[2], processed_articles[1])

\* the url of record k of the batch was seen before its iteration: before the
\* call, or through an earlier admissible record of the batch
SeenBefore(batch, k, urls) ==
  \/ batch[k].url \in urls
  \/ \E j \in 1..(k - 1) : Admissible(batch[j]) /\ batch[j].url = batch[k].url

\* what C3 says of every state
C3_State ==
  /\ \A i \in DOMAIN returned :
       /\ returned[i].relevance_score = RelevanceOf[<<returned[i].title, returned[i].content>>]
       /\ RelevanceThreshold <= returned[i].relevance_score
       /\ returned[i].relevance_score <= ScoreDen
  /\ \A k \in DOMAIN raw_articles :
       (Valid(raw_articles[k]) /\ ScoreOfRaw(raw_articles[k]) < RelevanceThreshold)
         => ~trace[k].enriched

\* what C3 says of every call: a valid record not seen before is returned
\* exactly when its relevance is at least 0.3
C3_Call ==
  \A k \in DOMAIN raw_articles' :
    LET raw == raw_articles'[k] IN
    (Valid(raw) /\ ~SeenBefore(raw_articles', k, processed_urls))
      => ((\E i \in DOMAIN processed_articles' : ArticleFrom(raw, processed_articles'[i]))
            <=> ScoreOfRaw(raw) >= RelevanceThreshold)

\* C3: every returned Article has 0.3 <= relevance_score <= 1; a valid record
\* not seen before is returned if and only if its relevance is >= 0.3; for a
\* record scoring below 0.3 no keywords and categories are computed.
C3_RelevanceGate == [](C3_State) /\ [][C3_Call]_vars

\* a record of relevance exactly 0.3 is returned and one just below is scored
\* and dropped
C3_Witness ==
  /\ Len(raw_articles) = 2 /\ Len(processed_articles) = 1
  /\ Valid(raw_articles[1]) /\ ScoreOfRaw(raw_articles[1]) = RelevanceThreshold
  /\ ArticleFrom(raw_articles[1], processed_articles[1])
  /\ Valid(raw_articles[2]) /\ ScoreOfRaw(raw_articles[2]) < RelevanceThreshold
  /\ trace[2].branch = "low_relevance" /\ trace[2].scored

\* the keywords of startup_keywords among ks
StartupKeywordsIn(ks) ==
  ks \cap {startup_keywords[k] : k \in 1..Len(startup_keywords)}

\* C4 (as claimed): a record whose body is the text of Scenario A and whose
\* text holds at least 2 startup keywords scores at least 0.3 and, when its
\* url was not seen before, is returned.
C4_ScenarioA_Claimed ==
  \A k \in DOMAIN raw_articles :
    LET raw == raw_articles[k] IN
    (/\ Valid(raw) /\ raw.content = ContentA
     /\ Cardinality(StartupKeywordsIn(KeywordsOf[<<raw.title, raw.content>>])) >= 2)
      => /\ ScoreOfRaw(raw) >= RelevanceThreshold
         /\ \E i \in DOMAIN returned : returned[i].url = raw.url

\* the text p holds no startup keyword and no India term
NoKeyword(p) == KeywordsOf[p] = {}

\* C5: a valid record in whose lower-cased title+content no startup keyword
\* and no India term occurs has relevance exactly 0 and is never returned.
C5_ScenarioB ==
  /\ \A k \in DOMAIN raw_articles :
       (Valid(raw_articles[k]) /\ NoKeyword(<<raw_articles[k].title, raw_articles[k].content>>))
         => /\ ScoreOfRaw(raw_articles[k]) = 0
            /\ \A i \in DOMAIN processed_articles :
                 ~ArticleFrom(raw_articles[k], processed_articles[i])
  /\ \A i \in DOMAIN returned : ~NoKeyword(<<returned[i].title, returned[i].content>>)

\* a record without any keyword was scored and dropped while a later record
\* of the batch with the same url was returned
C5_Witness ==
  /\ Len(raw_articles) = 2 /\ Len(processed_articles) = 1
  /\ Valid(raw_articles[1])
  /\ NoKeyword(<<raw_articles[1].title, raw_articles[1].content>>)
  /\ trace[1].branch = "low_relevance" /\ trace[1].scored
  /\ raw_articles[2].url = raw_articles[1].url
  /\ ArticleFrom(raw_articles[2], processed_articles[1])

\* the named categories that reach the threshold on the text p
CategoriesReached(p) ==
  {c \in DOMAIN CategoryScoreOf[p] : CategoryScoreOf[p][c] >= CategoryThreshold}

\* the elements of a list
Elements(s) == {s[k] : k \in DOMAIN s}

\* C6: the categories of every returned Article are not empty; they are
\* ['general'] exactly when no named category reaches the threshold, and
\* 'general' never stands beside a named category.
C6_CategoriesNeverEmpty ==
  \A i \in DOMAIN returned :
    LET a == returned[i]
        reached == CategoriesReached(<<a.title, a.content>>)
    IN  /\ a.categories # <<>>
        /\ (a.categories = <<"general">>) <=> (reached = {})
        /\ "general" \in Elements(a.categories) => Len(a.categories) = 1
        /\ reached # {} => Elements(a.categories) = reached

\* a call returned one Article of the fallback category and one of two named
\* categories
C6_Witness ==
  /\ Len(processed_articles) = 2
  /\ processed_articles[1].categories = <<"general">>
  /\ Len(processed_articles[2].categories) = 2
  /\ "general" \notin Elements(processed_articles[2].categories)

\* C17: given an empty input collection, process_articles returns an empty
\* list without raising and leaves processed_urls unchanged.
C17_EmptyInput ==
  [][raw_articles' = <<>> =>
       /\ processed_articles' = <<>>
       /\ raised' = "none"
       /\ processed_urls' = processed_urls
       /\ returned' = returned]_vars

\* an empty batch was processed by a curator that has seen urls before
C17_Witness ==
  /\ raw_articles = <<>>
  /\ processed_articles = <<>>
  /\ processed_urls # {}
  /\ returned # <<>>
  /\ raised = "none"

(***************************************************************************)
(* The Diversity Selector: curate_top_stories, called by main              *)
(* (src/main.py:46). The method is not part of the source files at hand;   *)
(* it is modelled from section 4.5 of the specification.                   *)
(***************************************************************************)

\* at most 3 accepted articles of one source
SourceCap == 3
\* a title may share at most 2 words with the accepted titles
OverlapCap == 2
\* the default target count N
DefaultTarget == 10

RECURSIVE InsertByImportance(_, _)
\* a inserted into the list s, sorted by descending importance, behind every
\* article of the same or a higher importance
InsertByImportance(s, a) ==
  IF s = <<>> THEN <<a>>
  ELSE IF Head(s).importance >= a.importance
    THEN <<Head(s)>> \o InsertByImportance(Tail(s), a)
  ELSE <<a>> \o s

\* SortByImportance that leaves the list as it is
SortByImportance_Unsorted(articles) == articles

RECURSIVE SortFrom(_, _, _)
SortFrom(articles, i, sorted) ==
  IF i > Len(articles) THEN sorted
  ELSE SortFrom(articles, i + 1, InsertByImportance(sorted, articles[i]))

\* the stable sort by descending importance score
SortByImportance(articles) == SortFrom(articles, 1, <<>>)

\* the accepted articles of the source
SourceCount(accepted, source) ==
  Cardinality({k \in DOMAIN accepted : accepted[k].source = source})

\* the union of the word sets of the accepted titles
AcceptedWords(accepted) == UNION {accepted[k].title_words : k \in DOMAIN accepted}

\* SourceAllowed with `<=` for `<`
SourceAllowed_OffByOne(accepted, a) == SourceCount(accepted, a.source) <= SourceCap

\* condition (a) of the greedy pass
SourceAllowed(accepted, a) == SourceCount(accepted, a.source) < SourceCap

\* condition (b) of the greedy pass
OverlapAllowed(accepted, a) ==
  Cardinality(a.title_words \cap AcceptedWords(accepted)) <= OverlapCap

RECURSIVE GreedyPass(_, _, _, _)
\* the first pass over the sorted list, from position i on; it stops once n
\* articles are accepted
GreedyPass(sorted, i, accepted, n) ==
  IF i > Len(sorted) \/ Len(accepted) >= n THEN accepted
  ELSE GreedyPass(sorted, i + 1,
                  IF SourceAllowed(accepted, sorted[i]) /\ OverlapAllowed(accepted, sorted[i])
                    THEN Append(accepted, sorted[i]) ELSE accepted,
                  n)

\* AlreadySelected that finds nothing selected
AlreadySelected_Never(selected, a) == FALSE

\* the article is among the selected ones
AlreadySelected(selected, a) == \E k \in DOMAIN selected : selected[k].id = a.id

RECURSIVE Backfill(_, _, _, _)
\* the second pass: the articles not yet selected, in sorted order, until n
\* are selected or the list is exhausted; the caps are not tested again
Backfill(sorted, i, selected, n) ==
  IF i > Len(sorted) \/ Len(selected) >= n THEN selected
  ELSE Backfill(sorted, i + 1,
                IF AlreadySelected(selected, sorted[i])
                  THEN selected ELSE Append(selected, sorted[i]),
                n)

\* curate_top_stories(articles, n): <<the output, the number of greedy picks>>
SelectTopStories(articles, n) ==
  LET sorted == SortByImportance(articles)
      greedy == GreedyPass(sorted, 1, <<>>, n)
  IN  <<Backfill(sorted, 1, greedy, n), Len(greedy)>>

\* the call curate_top_stories(articles, n) of main, once per run
curate_top_stories(articles, n) ==
  /\ sel_articles' = articles
  /\ sel_target' = n
  /\ LET r == SelectTopStories(articles, n)
     IN  /\ top_stories' = r[1]
         /\ greedy_picked' = r[2]
  /\ sel_pc' = "done"
  /\ UNCHANGED <<curatorVars, collectorVars, articleVars, scriptVars, mainVars, utilityVars>>

\* the most articles of a batch handed to the selector
MaxArticles == 4
\* the largest target count
MaxTarget == 5

SelSources == {"YourStory", "Inc42"}
SelImportance == {1, 2}
\* three words that titles may share
SharedWords == {"startup", "raises", "funding"}

\* the title of article k: a word of its own, with or without the shared words
TitleWords(k, shared) ==
  {"story" \o ToString(k)} \cup (IF shared THEN SharedWords ELSE {})

\* the batches of exactly c scored articles; the id of an article is its
\* position in the batch
ScoredBatches(c) ==
  {[k \in 1..c |-> [id |-> k, source |-> f[k][1], importance |-> f[k][2],
                    title_words |-> TitleWords(k, f[k][3])]] :
     f \in [1..c -> SelSources \X SelImportance \X BOOLEAN]}

\* main before the call of curate_top_stories
SelInit ==
  /\ CuratorInit
  /\ CollectorIdle
  /\ ArticleIdle
  /\ ScriptIdle
  /\ MainIdle
  /\ UtilityIdle
  /\ sel_pc = "ready"
  /\ sel_articles = <<>>
  /\ sel_target = 0
  /\ top_stories = <<>>
  /\ greedy_picked = 0

CurateTopStories ==
  /\ sel_pc = "ready"
  /\ \E c \in 0..MaxArticles : \E articles \in ScoredBatches(c) : \E n \in 0..MaxTarget :
       curate_top_stories(articles, n)

SelNext == CurateTopStories

SelSpec == SelInit /\ [][SelNext]_vars

(***************************************************************************)
(* Scenario C: 15 articles, 5 of one source with the 5 highest scores, N=10 *)
(***************************************************************************)

\* the articles of the batch of Scenario C
ScenarioArticles == 15
\* the articles of the one source that hold the highest scores
ScenarioTopArticles == 5

TopSource == "YourStory"
OtherSources == <<"Inc42", "Economic Times Startups", "Business Standard Startups", "VCCircle">>

\* how the other articles spread over the other sources: how many of each
SourceSpreads ==
  {f \in [1..Len(OtherSources) -> 0..(ScenarioArticles - ScenarioTopArticles)] :
     SumOver(f, 1, Len(OtherSources)) = ScenarioArticles - ScenarioTopArticles}

RECURSIVE SpreadList(_, _)
\* the sources of the other articles, source by source
SpreadList(f, s) ==
  IF s > Len(OtherSources) THEN <<>>
  ELSE [k \in 1..f[s] |-> OtherSources[s]] \o SpreadList(f, s + 1)

\* which titles share the three words: none, those of the other articles, all
TitlePatterns == {"distinct", "others_shared", "all_shared"}

\* The batch of Scenario C. The articles of TopSource score above all others
\* (all 5 alike when `ties`); they come first in the batch, or last (`top_first`).
ScenarioBatch(f, pattern, ties, top_first) ==
  LET others == SpreadList(f, 1)
      nOther == ScenarioArticles - ScenarioTopArticles
      isTop(k) == IF top_first THEN k <= ScenarioTopArticles ELSE k > nOther
      rank(k) == IF top_first THEN k ELSE k - nOther      \* among the top articles
      otherIdx(k) == IF top_first THEN k - ScenarioTopArticles ELSE k
  IN  [k \in 1..ScenarioArticles |->
         IF isTop(k)
           THEN [id |-> k, source |-> TopSource,
                 importance |-> IF ties THEN 2 * ScenarioArticles
                                ELSE 2 * ScenarioArticles - rank(k),
                 title_words |-> TitleWords(k, pattern = "all_shared")]
           ELSE [id |-> k, source |-> others[otherIdx(k)],
                 importance |-> IF ties THEN 1 ELSE ScenarioArticles - otherIdx(k),
                 title_words |-> TitleWords(k, pattern # "distinct")]]

ScenarioCurate ==
  /\ sel_pc = "ready"
  /\ \E f \in SourceSpreads : \E pattern \in TitlePatterns :
       \E ties \in BOOLEAN : \E top_first \in BOOLEAN :
         curate_top_stories(ScenarioBatch(f, pattern, ties, top_first), DefaultTarget)

ScenarioNext == ScenarioCurate

ScenarioSpec == SelInit /\ [][ScenarioNext]_vars

(***************************************************************************)
(* Properties of the Diversity Selector                                    *)
(***************************************************************************)

\* the articles of the source among s
OfSource(s, source) == Cardinality({k \in DOMAIN s : s[k].source = source})

\* the sources of the articles of s
SourcesOf(s) == {s[k].source : k \in DOMAIN s}

\* C7 (as claimed): in an output of size >= 4 no source appears more than 3
\* times.
C7_DiversityBound_Claimed ==
  (sel_pc = "done" /\ Len(top_stories) >= 4)
    => \A src \in SourcesOf(top_stories) : OfSource(top_stories, src) <= SourceCap

\* the greedy picks and the backfilled articles of the output
GreedyPart == SubSeq(top_stories, 1, greedy_picked)
BackfillPart == SubSeq(top_stories, greedy_picked + 1, Len(top_stories))

\* C7 (amended): among the greedy picks of the output no source appears more
\* than 3 times; a source appears more than 3 times in the output only when
\* the greedy pass accepted fewer than N and articles were backfilled.
C7_DiversityBound_Greedy ==
  sel_pc = "done" =>
    /\ \A src \in SourcesOf(top_stories) : OfSource(GreedyPart, src) <= SourceCap
    /\ (\E src \in SourcesOf(top_stories) : OfSource(top_stories, src) > SourceCap)
         => (greedy_picked < sel_target /\ BackfillPart # <<>>)

\* an output of 4 articles of one source: 3 greedy picks and 1 backfilled
C7_Witness ==
  /\ sel_pc = "done" /\ Len(top_stories) = 4 /\ greedy_picked = 3
  /\ \E src \in SelSources : OfSource(top_stories, src) = 4

\* a precedes b in the stable descending order by importance
Before(a, b) ==
  \/ a.importance > b.importance
  \/ a.importance = b.importance /\ a.id < b.id

\* the list s is in the stable descending order by importance
InSortedOrder(s) == \A i, j \in DOMAIN s : i < j => Before(s[i], s[j])

\* C9: the output holds exactly min(N, C) articles, none twice; the greedy
\* picks come first, in descending importance with ties in input order, each
\* passing the source cap and the overlap cap against the picks before it;
\* the backfilled articles follow, in the same order among themselves.
C9_SelectorCompleteness ==
  sel_pc = "done" =>
    /\ Len(top_stories) = Min(sel_target, Len(sel_articles))
    /\ \A i, j \in DOMAIN top_stories : i # j => top_stories[i].id # top_stories[j].id
    /\ \A i \in DOMAIN top_stories : sel_articles[top_stories[i].id] = top_stories[i]
    /\ greedy_picked <= Len(top_stories)
    /\ InSortedOrder(GreedyPart)
    /\ InSortedOrder(BackfillPart)
    /\ \A i \in 1..greedy_picked :
         /\ SourceCount(SubSeq(top_stories, 1, i - 1), top_stories[i].source) < SourceCap
         /\ Cardinality(top_stories[i].title_words
                          \cap AcceptedWords(SubSeq(top_stories, 1, i - 1))) <= OverlapCap

\* an output with a greedy pick behind which an article of a higher importance
\* was backfilled
C9_Witness ==
  /\ sel_pc = "done" /\ Len(top_stories) = 4 /\ Len(sel_articles) = 4
  /\ greedy_picked = 2
  /\ top_stories[3].importance > top_stories[2].importance

\* the articles of TopSource hold the 5 highest scores of the batch of 15
ScenarioC ==
  /\ sel_pc = "done" /\ sel_target = DefaultTarget
  /\ Len(sel_articles) = ScenarioArticles
  /\ OfSource(sel_articles, TopSource) = ScenarioTopArticles
  /\ \A i, j \in DOMAIN sel_articles :
       (sel_articles[i].source = TopSource /\ sel_articles[j].source # TopSource)
         => sel_articles[i].importance > sel_articles[j].importance

\* C8 (as claimed): in Scenario C the output holds 10 articles, at most 3 of
\* them of the top source and so at least 7 of the other sources.
C8_ScenarioC_Claimed ==
  ScenarioC =>
    /\ Len(top_stories) = DefaultTarget
    /\ OfSource(top_stories, TopSource) <= SourceCap
    /\ Len(top_stories) - OfSource(top_stories, TopSource) >= DefaultTarget - SourceCap

\* C8 (amended): in Scenario C the output holds 10 articles; at most 3 of the
\* greedy picks are of the top source; when the greedy pass accepts g < 10
\* articles, a of them of the top source, the backfill first takes the 5 - a
\* passed-over articles of the top source, so that the output holds
\* a + min(10 - g, 5 - a) of them: at most 3 when the greedy pass alone
\* accepts 10.
C8_ScenarioC_Backfill ==
  ScenarioC =>
    LET a == OfSource(GreedyPart, TopSource) IN
    /\ Len(top_stories) = DefaultTarget
    /\ a <= SourceCap
    /\ OfSource(top_stories, TopSource)
         = a + Min(DefaultTarget - greedy_picked, ScenarioTopArticles - a)
    /\ greedy_picked = DefaultTarget => OfSource(top_stories, TopSource) <= SourceCap

\* Scenario C with the greedy pass accepting 10: 3 of the top source, 7 others
C8_Witness ==
  /\ ScenarioC
  /\ greedy_picked = DefaultTarget
  /\ OfSource(top_stories, TopSource) = SourceCap
  /\ Len(top_stories) - OfSource(top_stories, TopSource) = DefaultTarget - SourceCap

(***************************************************************************)
(* NewsCollectorAgent: the keyword score of an article, and the importance *)
(* score built on it                                                       *)
(***************************************************************************)

\* self.startup_keywords of NewsCollectorAgent
collector_startup_keywords == <<
  "startup", "startups", "funding", "investment", "investor", "venture capital",
  "series a", "series b", "series c", "seed funding", "pre-series",
  "unicorn", "decacorn", "ipo", "initial public offering",
  "fintech", "edtech", "healthtech", "foodtech", "proptech", "agritech",
  "saas", "b2b", "b2c", "d2c", "marketplace",
  "entrepreneur", "entrepreneurship", "founder", "co-founder",
  "raised", "valuation", "round", "acquisition", "merger",
  "backed", "led by", "participated", "invested" >>

\* self.priority_keywords
priority_keywords == <<
  "unicorn", "ipo", "acquisition", "merger", "series a", "series b", "series c",
  "funding", "raised", "crore", "million", "billion", "valuation" >>

\* a regular keyword is worth 1 point, a priority keyword 3
RegularPoints == 1
PriorityPoints == 3

\* at least 2 startup keywords make an article startup-related
MinKeywordMatches == 2

\* the keywords of the table that occur in the text
KeywordMatches(table, text_lower) ==
  Cardinality({k \in DOMAIN table : Contains(table[k], text_lower)})

\* _is_startup_related(text)
_is_startup_related(text) ==
  KeywordMatches(collector_startup_keywords, Lower(text)) >= MinKeywordMatches

\* the score with every occurrence of a keyword counted
collector_calculate_relevance_score_PerOccurrence(text) ==
  LET text_lower == Lower(text)
  IN  RegularPoints * SumOver([k \in DOMAIN collector_startup_keywords |->
                                 Count(collector_startup_keywords[k], text_lower)],
                              1, Len(collector_startup_keywords))
      + PriorityPoints * SumOver([k \in DOMAIN priority_keywords |->
                                    Count(priority_keywords[k], text_lower)],
                                 1, Len(priority_keywords))

\* NewsCollectorAgent._calculate_relevance_score(text)
collector_calculate_relevance_score(text) ==
  LET text_lower == Lower(text)
  IN  RegularPoints * KeywordMatches(collector_startup_keywords, text_lower)
      + PriorityPoints * KeywordMatches(priority_keywords, text_lower)

\* the recency bonus of an article published hours_old hours before curation
RecencyBonus(hours_old) ==
  IF hours_old <= 6 THEN 5
  ELSE IF hours_old <= 12 THEN 3
  ELSE IF hours_old <= 24 THEN 1
  ELSE 0

\* the importance score of a collected article: its keyword points, with the
\* collector's score as the base score, and the recency bonus
ImportanceScore(article, filtered) ==
  IF filtered.kept THEN filtered.relevance_score + RecencyBonus(article.hours_old) ELSE 0

\* the ages of an article at curation: multiples of 6 hours, MaxAgeSteps at most
MaxAgeSteps == 5
ArticleAges == {6 * k : k \in 0..MaxAgeSteps}

\* raw_content = title + " " + summary
RawContents == {
  "Zepto turns unicorn after funding round",
  "Funding news: startup closes seed",
  "Fintech startup raised $5 Million in Series",
  "IPO-bound SaaS founder eyes merger, acquisition at Rs 500 crore valuation",
  "Investors backed the B2B marketplace Billion-dollar valuation",
  "Edtech startups: Series A, Series B and Series C",
  "Local weather Rain is expected",
  " " }

\* how a keyword is added to a text: as a further word, or as a further sentence
Separators == {" ", ". "}

\* the text with the keyword added
AddKeyword(text, separator, keyword) == text \o separator \o keyword

\* _filter_startup_articles, for one article of the raw_content `text`: a
\* startup-related article is kept and given its relevance_score
FilterText(text) ==
  IF _is_startup_related(text)
    THEN [kept |-> TRUE, relevance_score |-> collector_calculate_relevance_score(text)]
    ELSE [kept |-> FALSE, relevance_score |-> 0]

\* the texts of the articles collected, with and without a keyword added
CollectedTexts ==
  RawContents \cup
    {AddKeyword(text, separator, priority_keywords[k]) :
       text \in RawContents, separator \in Separators, k \in DOMAIN priority_keywords}

\* what _filter_startup_articles makes of each of these texts, computed once
FilteredOf == [text \in CollectedTexts |-> FilterText(text)]

FilterArticle(article) == FilteredOf[article.raw_content]

\* the collector scores an article and the same article with a keyword added
ScoreArticles(text, hours_old, separator, keyword) ==
  LET article == [raw_content |-> text, hours_old |-> hours_old]
      variant == [raw_content |-> AddKeyword(text, separator, keyword), hours_old |-> hours_old]
      filtered == <<FilterArticle(article), FilterArticle(variant)>>
  IN  /\ col_keyword' = keyword
      /\ col_articles' = <<article, variant>>
      /\ col_filtered' = filtered
      /\ col_importance' = <<ImportanceScore(article, filtered[1]),
                             ImportanceScore(variant, filtered[2])>>
      /\ col_pc' = "scored"
      /\ UNCHANGED <<curatorVars, selectorVars, articleVars, scriptVars, mainVars, utilityVars>>

CollectorInit ==
  /\ CuratorInit
  /\ SelectorIdle
  /\ ArticleIdle
  /\ ScriptIdle
  /\ MainIdle
  /\ UtilityIdle
  /\ col_pc = "ready"
  /\ col_keyword = ""
  /\ col_articles = <<>>
  /\ col_filtered = <<>>
  /\ col_importance = <<>>

FilterStartupArticles ==
  /\ col_pc = "ready"
  /\ \E text \in RawContents : \E hours_old \in ArticleAges :
       \E separator \in Separators : \E k \in DOMAIN priority_keywords :
         ScoreArticles(text, hours_old, separator, priority_keywords[k])

CollectorNext == FilterStartupArticles

CollectorSpec == CollectorInit /\ [][CollectorNext]_vars

(***************************************************************************)
(* Properties of the importance score                                      *)
(***************************************************************************)

\* the keyword added to the article occurs in the article already
KeywordPresent == Contains(col_keyword, Lower(col_articles[1].raw_content))

\* a keyword of the two tables
CollectorKeywords ==
  {collector_startup_keywords[k] : k \in DOMAIN collector_startup_keywords}
    \cup {priority_keywords[k] : k \in DOMAIN priority_keywords}

\* an occurrence of a keyword of the tables in the text with the keyword added
\* that begins in the article's text and ends behind it
CompletesAnotherKeyword ==
  LET text == Lower(col_articles[1].raw_content)
      added == Lower(col_articles[2].raw_content)
  IN  \E kw \in CollectorKeywords : \E i \in 1..Len(text) :
        /\ i + Len(kw) - 1 > Len(text)
        /\ MatchAt(kw, added, i)

\* both articles are scored: the collector has kept the article
BothScored == col_pc = "scored" /\ col_filtered[1].kept

\* C10 (as claimed): adding a funding keyword that was absent strictly
\* increases the importance score; repeating a keyword already present leaves
\* the score unchanged.
C10_ImportanceMonotonicity_Claimed ==
  BothScored =>
    /\ col_filtered[2].kept
    /\ ~KeywordPresent => col_importance[2] > col_importance[1]
    /\ KeywordPresent => col_importance[2] = col_importance[1]

\* C10 (amended): adding a funding keyword that was absent strictly increases
\* the importance score; repeating a keyword already present never lowers the
\* score, and leaves it unchanged unless the added occurrence, together with
\* the end of the text, completes another keyword of the tables.
C10_ImportanceMonotonicity_Junction ==
  BothScored =>
    /\ col_filtered[2].kept
    /\ ~KeywordPresent => col_importance[2] > col_importance[1]
    /\ KeywordPresent =>
         /\ col_importance[2] >= col_importance[1]
         /\ ~CompletesAnotherKeyword =>
              col_importance[2] = col_importance[1]

\* "funding" repeated as a further word in a scored article that holds it,
\* completing no other keyword: the score stays as it is
C10_Witness ==
  /\ BothScored
  /\ col_keyword = "funding"
  /\ KeywordPresent
  /\ col_articles[2].raw_content = col_articles[1].raw_content \o " funding"
  /\ ~CompletesAnotherKeyword
  /\ col_filtered[1].relevance_score > 0
  /\ col_importance[2] = col_importance[1]

(***************************************************************************)
(* _generate_summary applied to bodies of a few sentences                  *)
(***************************************************************************)

\* what a body is made of: sentences with their punctuation and spaces, runs
\* of punctuation, words without punctuation
Fragments ==
  { "Zepto raised funding in Mumbai.",
    "It rained?! ",
    " Indian startups grow!",
    " Noida office opens.",
    "Wow",
    "..." }

\* a body holds at most MaxFragments fragments
MaxFragments == 4

RECURSIVE Concat(_, _)
\* the fragments of the sequence from its element i on, concatenated
Concat(seq, i) == IF i > Len(seq) THEN "" ELSE seq[i] \o Concat(seq, i + 1)

\* the text is a body of at most n fragments
IsBody(text, n) ==
  \E k \in 0..n : \E seq \in [1..k -> Fragments] : text = Concat(seq, 1)

SummaryInit ==
  /\ CuratorInit
  /\ SelectorIdle
  /\ CollectorIdle
  /\ ScriptIdle
  /\ MainIdle
  /\ UtilityIdle
  /\ art_pc = "ready"
  /\ art_title = ""
  /\ IsBody(art_content, MaxFragments)
  /\ art_url = ""
  /\ art_summary = ""
  /\ art_score = 0
  /\ art_categories = <<>>
  /\ art_keywords = <<>>

\* article.summary = self._generate_summary(article)
GenerateSummary ==
  /\ art_pc = "ready"
  /\ art_summary' = _generate_summary("str", art_content).value
  /\ art_pc' = "done"
  /\ UNCHANGED <<art_title, art_content, art_url, art_score, art_categories, art_keywords>>
  /\ UNCHANGED <<curatorVars, selectorVars, collectorVars, scriptVars, mainVars, utilityVars>>

SummaryNext == GenerateSummary

SummarySpec == SummaryInit /\ [][SummaryNext]_vars

(***************************************************************************)
(* Properties of the summary                                               *)
(***************************************************************************)

\* the character of the text at position i is of a sentence: neither
\* punctuation of [.!?] nor whitespace
Inked(text, i) == CharAt(text, i) \notin SentenceEnds \cup Whitespace \cup {""}

\* The positions at which a non-empty sentence of the text begins: an inked
\* character that follows, over whitespace only, the begin of the text or
\* punctuation.
SentenceBegins(text) ==
  {i \in 1..Len(text) :
     /\ Inked(text, i)
     /\ LET before == SkipWhitespaceBack(text, i - 1)
        IN  before = 0 \/ CharAt(text, before) \in SentenceEnds}

\* the number of non-empty sentences of the body
NonEmptySentences(text) == Cardinality(SentenceBegins(text))

\* C12: whenever the body splits into at most 3 non-empty sentences (split on
\* runs of '.', '!' or '?'), _generate_summary returns the full body verbatim,
\* with its punctuation and spacing.
C12_ShortBodyVerbatim ==
  (art_pc = "done" /\ NonEmptySentences(art_content) <= 3) =>
    art_summary = art_content

\* a body of exactly 3 sentences, with runs of punctuation and spaces between
\* them, is its own summary
C12_Witness ==
  /\ art_pc = "done"
  /\ NonEmptySentences(art_content) = 3
  /\ Contains("?!  ", art_content)
  /\ Contains("!Wow", art_content)
  /\ art_summary = art_content

\* the sentence of the text that begins at position b: up to the next
\* punctuation of [.!?], without the whitespace before it
SentenceAt(text, b) ==
  SubSeq(text, b,
         SkipWhitespaceBack(text,
           Least({j \in b..(Len(text) + 1) :
                    j = Len(text) + 1 \/ CharAt(text, j) \in SentenceEnds}) - 1))

\* the different terms of the table that the lower-cased sentence holds
TermsPresent(table, sentence_lower) ==
  {Lower(table[k]) : k \in {n \in DOMAIN table : Contains(Lower(table[n]), sentence_lower)}}

\* 2 per startup keyword present + 1 per India term present + max(0, 3 - index)
TermScore(sentence_lower, index) ==
  2 * Cardinality(TermsPresent(startup_keywords, sentence_lower))
    + Cardinality(TermsPresent(indian_startup_terms, sentence_lower))
    + Max(0, 3 - index)

\* the begins of the 3 sentences of the highest score, a tie going to the
\* sentence that begins first
HighestThree(scores) ==
  {b \in DOMAIN scores :
     Cardinality({c \in DOMAIN scores :
                    scores[c] > scores[b] \/ (scores[c] = scores[b] /\ c < b)}) < 3}

\* the scores of the sentences of the text, by their begins
TermScores(text, begins) ==
  [b \in begins |->
     TermScore(Lower(SentenceAt(text, b)), Cardinality({c \in begins : c < b}))]

\* C22 (as claimed): for a body of more than 3 sentences the summary is made
\* of exactly 3 different sentences, those of the highest score (2 per startup
\* keyword present + 1 per India term present + max(0, 3 - index)), ties going
\* to the lower index, in the order of the document, joined by single spaces.
C22_TopThreeSentences_Claimed ==
  (art_pc = "done" /\ NonEmptySentences(art_content) > 3) =>
    art_summary
      = JoinFrom([b \in SentenceBegins(art_content) |-> SentenceAt(art_content, b)],
                 HighestThree(TermScores(art_content, SentenceBegins(art_content))))

(***************************************************************************)
(* save_articles_to_json and load_articles_from_json                       *)
(***************************************************************************)

RECURSIVE FormatNumber(_)
\* str(n) of a natural number
FormatNumber(n) ==
  IF n < 10 THEN SubSeq(Digits, n + 1, n + 1)
  ELSE FormatNumber(n \div 10) \o SubSeq(Digits, (n % 10) + 1, (n % 10) + 1)

\* the number written with `width` digits at least: "%0*d"
Pad(n, width) ==
  LET text == FormatNumber(n)
  IN  Rep("0", width - Len(text)) \o text

\* isoformat with the microseconds left out
isoformat_Seconds(d) ==
  Pad(d.year, 4) \o "-" \o Pad(d.month, 2) \o "-" \o Pad(d.day, 2) \o "T"
    \o Pad(d.hour, 2) \o ":" \o Pad(d.minute, 2) \o ":" \o Pad(d.second, 2)

\* datetime.isoformat(): YYYY-MM-DDTHH:MM:SS, and .ffffff when the
\* microseconds are not 0
isoformat(d) ==
  Pad(d.year, 4) \o "-" \o Pad(d.month, 2) \o "-" \o Pad(d.day, 2) \o "T"
    \o Pad(d.hour, 2) \o ":" \o Pad(d.minute, 2) \o ":" \o Pad(d.second, 2)
    \o (IF d.microsecond = 0 THEN "" ELSE "." \o Pad(d.microsecond, 6))

\* the text holds digits only at the positions lo..hi
DigitsAt(text, lo, hi) == \A i \in lo..hi : IsDigitAt(text, i)

\* datetime.fromisoformat(text) of a text of isoformat(): [ok, value]; ok is
\* FALSE where it raises ValueError
fromisoformat(text) ==
  IF /\ Len(text) \in {19, 26}
     /\ DigitsAt(text, 1, 4) /\ CharAt(text, 5) = "-"
     /\ DigitsAt(text, 6, 7) /\ CharAt(text, 8) = "-"
     /\ DigitsAt(text, 9, 10)
     /\ DigitsAt(text, 12, 13) /\ CharAt(text, 14) = ":"
     /\ DigitsAt(text, 15, 16) /\ CharAt(text, 17) = ":"
     /\ DigitsAt(text, 18, 19)
     /\ Len(text) = 26 => (CharAt(text, 20) = "." /\ DigitsAt(text, 21, 26))
     /\ NumberAt(text, 1, 4) >= 1
     /\ NumberAt(text, 6, 2) \in 1..12
     /\ NumberAt(text, 9, 2) \in 1..DaysInMonth(NumberAt(text, 1, 4), NumberAt(text, 6, 2))
     /\ NumberAt(text, 12, 2) <= 23
     /\ NumberAt(text, 15, 2) <= 59
     /\ NumberAt(text, 18, 2) <= 59
    THEN [ok |-> TRUE,
          value |-> DateTime(NumberAt(text, 1, 4), NumberAt(text, 6, 2), NumberAt(text, 9, 2),
                             NumberAt(text, 12, 2), NumberAt(text, 15, 2),
                             NumberAt(text, 18, 2),
                             IF Len(text) = 26 THEN NumberAt(text, 21, 6) ELSE 0)]
    ELSE [ok |-> FALSE, value |-> DateTime(1, 1, 1, 0, 0, 0, 0)]

RECURSIVE EscapeRange(_, _, _)
\* the characters lo..hi of s as json.dump writes them (ensure_ascii=False)
EscapeRange(s, lo, hi) ==
  IF lo > hi THEN ""
  ELSE IF lo = hi
    THEN LET c == SubSeq(s, lo, lo)
         IN  CASE c = "\"" -> "\\\""
               [] c = "\\" -> "\\\\"
               [] c = "\n" -> "\\n"
               [] c = "\t" -> "\\t"
               [] OTHER -> c
  ELSE LET mid == (lo + hi) \div 2
       IN  EscapeRange(s, lo, mid) \o EscapeRange(s, mid + 1, hi)

\* the JSON text of a str
JsonString(s) == "\"" \o EscapeRange(s, 1, Len(s)) \o "\""

RECURSIVE Backslashes(_, _)
\* the length of the run of backslashes of the text that ends at position i
Backslashes(text, i) ==
  IF CharAt(text, i) = "\\" THEN 1 + Backslashes(text, i - 1) ELSE 0

\* What json.load reads of the character at position i of a JSON string: a
\* backslash that ends a run of odd length begins an escape sequence.
UnescapeAt(text, i) ==
  LET c == CharAt(text, i)
  IN  IF Backslashes(text, i) % 2 = 1 THEN ""
      ELSE IF Backslashes(text, i - 1) % 2 = 1
        THEN CASE c = "n" -> "\n" [] c = "t" -> "\t" [] OTHER -> c
      ELSE c

RECURSIVE UnescapeRange(_, _, _)
UnescapeRange(text, lo, hi) ==
  IF lo > hi THEN ""
  ELSE IF lo = hi THEN UnescapeAt(text, lo)
  ELSE LET mid == (lo + hi) \div 2
       IN  UnescapeRange(text, lo, mid) \o UnescapeRange(text, mid + 1, hi)

\* the str of a JSON text
ParseJsonString(text) == UnescapeRange(text, 2, Len(text) - 1)

\* The record json.dump writes for an Article. The score, an exact multiple of
\* 1/ScoreDen here, is written by the digits of its numerator, as repr writes
\* the shortest digits that read back as the same float.
ArticleData(article) ==
  [ title |-> JsonString(article.title),
    content |-> JsonString(article.content),
    url |-> JsonString(article.url),
    source |-> JsonString(article.source),
    published_date |-> JsonString(isoformat(article.published_date)),
    summary |-> JsonString(article.summary),
    relevance_score |-> FormatNumber(article.relevance_score),
    categories |-> [i \in DOMAIN article.categories |-> JsonString(article.categories[i])],
    keywords |-> {JsonString(k) : k \in article.keywords} ]

\* the Article load_articles_from_json makes of a record of the file
ArticleOfData(data) ==
  [ title |-> ParseJsonString(data.title),
    content |-> ParseJsonString(data.content),
    url |-> ParseJsonString(data.url),
    source |-> ParseJsonString(data.source),
    published_date |-> fromisoformat(ParseJsonString(data.published_date)).value,
    summary |-> ParseJsonString(data.summary),
    relevance_score |-> NumberAt(data.relevance_score, 1, Len(data.relevance_score)),
    categories |-> [i \in DOMAIN data.categories |-> ParseJsonString(data.categories[i])],
    keywords |-> {ParseJsonString(k) : k \in data.keywords} ]

\* save_articles_to_json(articles, filename); io_ok: the file can be written.
\* An OSError of open is caught and False returned.
save_articles_to_json(articles, io_ok) ==
  IF io_ok
    THEN /\ json_file' = [i \in DOMAIN articles |-> ArticleData(articles[i])]
         /\ file_exists' = TRUE
         /\ save_result' = TRUE
    ELSE /\ save_result' = FALSE
         /\ UNCHANGED <<json_file, file_exists>>

\* load_articles_from_json(filename). Any exception (no file, a date that is
\* no ISO date) is caught and [] returned.
load_articles_from_json ==
  IF /\ file_exists
     /\ \A i \in DOMAIN json_file :
          fromisoformat(ParseJsonString(json_file[i].published_date)).ok
    THEN loaded_articles' = [i \in DOMAIN json_file |-> ArticleOfData(json_file[i])]
    ELSE loaded_articles' = <<>>

(***************************************************************************)
(* A script that makes a curator, processes one batch, saves the Articles  *)
(* and loads them again                                                    *)
(***************************************************************************)

\* a sample holds at most MaxSample records
MaxSample == 2

\* the clock moves at most MaxTicks seconds before the batch is processed
MaxTicks == 1

\* the arguments the script passes to process_articles
SampleArguments ==
  {PyList(batch) : batch \in UNION {[1..k -> ScriptRecords] : k \in 0..MaxSample}}
    \cup {NotIterable}

ScriptInit ==
  /\ CuratorInit
  /\ SelectorIdle
  /\ CollectorIdle
  /\ ArticleIdle
  /\ MainIdle
  /\ UtilityIdle
  /\ script_pc = "start"
  /\ json_file = <<>>
  /\ file_exists = FALSE
  /\ save_result = FALSE
  /\ loaded_articles = <<>>

\* a second passes
Tick ==
  /\ script_pc = "start"
  /\ clock.second < ClockStart.second + MaxTicks
  /\ clock' = [clock EXCEPT !.second = @ + 1]
  /\ UNCHANGED <<processed_urls, raw_articles, processed_articles, trace, returned, raised>>
  /\ UNCHANGED <<selectorVars, collectorVars, articleVars, scriptVars, mainVars, utilityVars>>

\* processed_articles = curator.process_articles(sample_articles)
ScriptProcess ==
  /\ script_pc = "start"
  /\ \E arg \in SampleArguments :
       /\ process_articles(arg)
       /\ script_pc' = IF arg.iterable THEN "processed" ELSE "raised"
  /\ UNCHANGED <<json_file, file_exists, save_result, loaded_articles>>

\* curator.save_articles_to_json(processed_articles, 'processed_articles.json')
ScriptSave ==
  /\ script_pc = "processed"
  /\ \E io_ok \in BOOLEAN : save_articles_to_json(processed_articles, io_ok)
  /\ script_pc' = "saved"
  /\ UNCHANGED loaded_articles
  /\ UNCHANGED <<curatorVars, selectorVars, collectorVars, articleVars, mainVars, utilityVars>>

\* curator.load_articles_from_json('processed_articles.json')
ScriptLoad ==
  /\ script_pc = "saved"
  /\ load_articles_from_json
  /\ script_pc' = "loaded"
  /\ UNCHANGED <<json_file, file_exists, save_result>>
  /\ UNCHANGED <<curatorVars, selectorVars, collectorVars, articleVars, mainVars, utilityVars>>

ScriptNext == Tick \/ ScriptProcess \/ ScriptSave \/ ScriptLoad

ScriptSpec == ScriptInit /\ [][ScriptNext]_vars

(***************************************************************************)
(* Properties of the dates, the failures and the file                      *)
(***************************************************************************)

\* the script has just called process_articles, which returned
Called == script_pc = "start" /\ script_pc' = "processed"

\* the raw record is a mapping whose title, content, url and source are str
WellTyped(raw) ==
  /\ IsMapping(raw)
  /\ \A key \in {"title", "content", "url", "source"} : TypeOf(raw, key) = "str"

\* no record before record k of the batch carries its url
FirstOfUrl(batch, k) ==
  \A j \in 1..(k - 1) : Get(batch[j], "url", "") # Get(batch[k], "url", "")

\* texts that are dates in none of the formats, or no dates of the calendar
UnparseableDates == {"15 January 2024", "2024-02-30"}

\* the published_date of the record is missing, empty, unparseable or no str
DateFails(raw) ==
  \/ "published_date" \notin DOMAIN raw
  \/ TypeOf(raw, "published_date") # "str"
  \/ raw.published_date \in UnparseableDates \cup {""}

\* C13: a date-parse failure never rejects an article: an otherwise admissible
\* record whose published_date is missing, empty, in no known format or not a
\* string is returned by process_articles, and its published_date is the
\* current time.
C13_DateFailureKeepsArticle ==
  [][Called =>
       \A k \in DOMAIN raw_articles' :
         LET raw == raw_articles'[k]
         IN  (/\ WellTyped(raw) /\ Admissible(raw) /\ DateFails(raw)
              /\ raw.url \notin processed_urls
              /\ FirstOfUrl(raw_articles', k))
             => /\ raised' = "none"
                /\ \E i \in DOMAIN processed_articles' :
                     /\ ArticleFrom(raw, processed_articles'[i])
                     /\ processed_articles'[i].published_date = clock]_vars

\* a batch of a record with a date in no known format and a record with an
\* empty date, processed a second after the curator was made: both Articles
\* are returned with the time of the call
C13_Witness ==
  /\ script_pc = "processed"
  /\ clock # ClockStart
  /\ Len(raw_articles) = 2
  /\ "published_date" \in DOMAIN raw_articles[1]
  /\ raw_articles[1].published_date = "15 January 2024"
  /\ "published_date" \in DOMAIN raw_articles[2]
  /\ raw_articles[2].published_date = ""
  /\ Len(processed_articles) = 2
  /\ \A i \in 1..2 : processed_articles[i].published_date = clock

\* the batch without its record k
RemoveAt(batch, k) ==
  [i \in 1..(Len(batch) - 1) |-> IF i < k THEN batch[i] ELSE batch[i + 1]]

\* C14: if processing one record of a batch fails at any stage,
\* process_articles does not raise, and its result equals the result of
\* processing the same batch with that record removed (same Articles, same
\* order).
C14_FailureIsolation ==
  [][Called =>
       \A k \in DOMAIN trace' :
         trace'[k].branch = "failed"
           => /\ raised' = "none"
              /\ processed_articles'
                   = ProcessLoop(RemoveAt(raw_articles', k), 1,
                                 [urls |-> processed_urls, out |-> <<>>,
                                  trace |-> <<>>]).out]_vars

\* an Article was returned for the record before the one whose summary failed
C14_Witness ==
  /\ script_pc = "processed"
  /\ Len(raw_articles) = 2
  /\ Len(trace) = 2
  /\ trace[1].branch = "processed"
  /\ trace[2].branch = "failed"
  /\ trace[2].scored
  /\ Len(processed_articles) = 1
  /\ raised = "none"

\* C15 (as claimed): process_articles raises exactly when raw_articles is not
\* iterable or holds an element that is not mapping-like.
C15_HardError_Claimed ==
  [][(script_pc = "start" /\ script_pc' # "start") =>
       ((raised' # "none") <=>
          (\/ script_pc' = "raised"
           \/ \E k \in DOMAIN raw_articles' : ~IsMapping(raw_articles'[k])))]_vars

\* C16 (as claimed): a record as NewsCollectorAgent produces it, the first of
\* its url, is turned into an Article with the body of its `summary` and the
\* timestamp of its `published`.
C16_CollectorRecord_Claimed ==
  (script_pc = "processed" /\ \E k \in DOMAIN raw_articles : raw_articles[k] = CollectorRecord)
    => \E i \in DOMAIN processed_articles :
         /\ processed_articles[i].url = CollectorRecord.url
         /\ processed_articles[i].content = CollectorRecord.summary
         /\ processed_articles[i].published_date = DateTime(2024, 1, 15, 10, 30, 0, 0)

\* C11: save_articles_to_json followed by load_articles_from_json of the same
\* file returns a list of the same length and order in which every Article
\* has the same title, content, url, source, summary, relevance_score,
\* categories, keywords and published_date (the file being written).
C11_RoundTrip ==
  (script_pc = "loaded" /\ save_result) =>
    /\ Len(loaded_articles) = Len(processed_articles)
    /\ \A i \in DOMAIN processed_articles :
         \A field \in {"title", "content", "url", "source", "summary", "relevance_score",
                       "categories", "keywords", "published_date"} :
           loaded_articles[i][field] = processed_articles[i][field]

\* two Articles saved and loaded: one with a parsed date, one with the time of
\* the call and its microseconds and a title that JSON escapes
C11_Witness ==
  /\ script_pc = "loaded"
  /\ save_result
  /\ Len(loaded_articles) = 2
  /\ loaded_articles[1].published_date = DateTime(2024, 1, 15, 10, 30, 0, 0)
  /\ loaded_articles[2].published_date.microsecond # 0
  /\ Contains("\"", loaded_articles[2].title)
  /\ Contains("\\\"", json_file[2].title)
  /\ loaded_articles[1].summary # loaded_articles[1].content
  /\ loaded_articles = processed_articles

\* the characters of the fallback summary taken from the body
FallbackLength == 200

\* C23 (as claimed): when the summarization of a record fails internally, its
\* Article is still returned, with a summary of the first 200 characters of
\* its body followed by an ellipsis.
C23_SummaryFallback_Claimed ==
  script_pc = "processed" =>
    \A k \in DOMAIN raw_articles :
      (trace[k].scored /\ trace[k].branch \in {"failed", "processed"}
         /\ TypeOf(raw_articles[k], "content") # "str")
        => \E i \in DOMAIN processed_articles :
             /\ processed_articles[i].url = raw_articles[k].url
             /\ processed_articles[i].summary
                  = SubSeq(raw_articles[k].content, 1,
                           Min(FallbackLength, Len(raw_articles[k].content))) \o "..."

(***************************************************************************)
(* main: the run of the four agents                                        *)
(***************************************************************************)

\* the methods the classes of the agents define
AgentMethods ==
  [ collector |-> {"__init__", "collect_daily_news", "_fetch_from_source",
                   "_filter_startup_articles", "_is_startup_related",
                   "_calculate_relevance_score", "_clean_text", "_parse_date",
                   "_remove_duplicates", "_filter_recent_articles"},
    curator |-> {"__init__", "_load_startup_keywords", "_load_indian_terms",
                 "_load_category_keywords", "process_articles", "_parse_date",
                 "_calculate_relevance_score", "_extract_keywords", "_classify_article",
                 "_generate_summary", "_split_into_sentences", "filter_articles_by_date",
                 "rank_articles", "get_trending_keywords", "get_articles_by_category",
                 "generate_content_report", "save_articles_to_json",
                 "load_articles_from_json"},
    designer |-> {"__init__", "create_carousel", "_create_title_slide",
                  "_create_story_slide"},
    emailer |-> {"__init__", "send_daily_digest", "_create_email_message",
                 "_create_html_body"} ]

\* the calls of main's try block after the collection, in its order, each with
\* the methods of the agent that its body calls outside a handler of its own
PipelineCalls ==
  << [agent |-> "curator", method |-> "curate_top_stories", calls |-> {}],
     [agent |-> "designer", method |-> "create_carousel", calls |-> {}],
     [agent |-> "emailer", method |-> "send_daily_digest",
      calls |-> {"_create_email_message", "_send_email"}] >>

RECURSIVE RunPipeline(_, _)
\* The try block from its call k on, with the methods entered so far. A call
\* of a method the class does not define raises AttributeError, which ends
\* the block; so does a method that raises it inside.
RunPipeline(k, entered) ==
  IF k > Len(PipelineCalls) THEN [entered |-> entered, error |-> ""]
  ELSE LET call == PipelineCalls[k]
       IN  IF call.method \notin AgentMethods[call.agent]
             THEN [entered |-> entered, error |-> "AttributeError"]
           ELSE IF ~(call.calls \subseteq AgentMethods[call.agent])
             THEN [entered |-> Append(entered, call.method), error |-> "AttributeError"]
           ELSE RunPipeline(k + 1, Append(entered, call.method))

\* collect_daily_news returns at most MaxCollected articles
MaxCollected == 4

\* the sources of the articles collected
CollectedSources == {"Inc42", "YourStory", "VCCircle"}

MainInit ==
  /\ CuratorInit
  /\ SelectorIdle
  /\ CollectorIdle
  /\ ArticleIdle
  /\ ScriptIdle
  /\ UtilityIdle
  /\ main_pc = "start"
  /\ main_articles = <<>>
  /\ main_calls = <<>>
  /\ main_error = ""
  /\ exit_status = -1

\* articles = collector.collect_daily_news(); with no article main returns
MainCollect ==
  /\ main_pc = "start"
  /\ \E n \in 0..MaxCollected : \E articles \in [1..n -> CollectedSources] :
       /\ main_articles' = articles
       /\ main_pc' = IF n = 0 THEN "returned" ELSE "collected"
       /\ exit_status' = IF n = 0 THEN 0 ELSE exit_status
  /\ main_calls' = <<"collect_daily_news">>
  /\ UNCHANGED main_error
  /\ UNCHANGED <<curatorVars, selectorVars, collectorVars, articleVars, scriptVars, utilityVars>>

\* the steps 2 to 4 of the try block
MainPipeline ==
  /\ main_pc = "collected"
  /\ LET run == RunPipeline(1, main_calls)
     IN  /\ main_calls' = run.entered
         /\ main_error' = run.error
         /\ main_pc' = IF run.error = "" THEN "returned" ELSE "failed"
         /\ exit_status' = IF run.error = "" THEN 0 ELSE exit_status
  /\ UNCHANGED main_articles
  /\ UNCHANGED <<curatorVars, selectorVars, collectorVars, articleVars, scriptVars, utilityVars>>

\* `except Exception`: the error notification is tried, its own failure
\* swallowed, and the process exits with status 1
MainHandleError ==
  /\ main_pc = "failed"
  /\ main_calls' = IF "send_error_notification" \in AgentMethods.emailer
                     THEN Append(main_calls, "send_error_notification")
                     ELSE main_calls
  /\ exit_status' = 1
  /\ main_pc' = "exited"
  /\ UNCHANGED <<main_articles, main_error>>
  /\ UNCHANGED <<curatorVars, selectorVars, collectorVars, articleVars, scriptVars, utilityVars>>

MainNext == MainCollect \/ MainPipeline \/ MainHandleError

MainSpec == MainInit /\ [][MainNext]_vars

\* C18 (as claimed): when collect_daily_news returns at least one article the
\* steps run in the order collect_daily_news, curate_top_stories,
\* create_carousel, send_daily_digest, each once, and the run ends in success
\* (no error, no exit status 1); with no article none of the later steps runs
\* and no error is signalled.
C18_MainOrder_Claimed ==
  /\ main_pc \notin {"failed", "exited"}
  /\ main_error = ""
  /\ exit_status # 1
  /\ main_pc = "returned" =>
       main_calls = IF Len(main_articles) = 0
                      THEN <<"collect_daily_news">>
                      ELSE <<"collect_daily_news", "curate_top_stories", "create_carousel",
                             "send_daily_digest">>

(***************************************************************************)
(* _calculate_relevance_score and _classify_article applied to an Article  *)
(***************************************************************************)

\* the words a short content is made of
ContentWords == {"Startup", "B2B2B", "payments"}

\* a short content holds at most MaxWords words
MaxWords == 3

RECURSIVE JoinWords(_, _)
\* ' '.join of the words of the sequence from its element i on
JoinWords(seq, i) ==
  IF i > Len(seq) THEN ""
  ELSE IF i = Len(seq) THEN seq[i]
  ELSE seq[i] \o " " \o JoinWords(seq, i + 1)

\* the titles and contents of the Articles scored: short texts, and texts
\* with about as many keyword occurrences as the normalisations assume at
\* most (150 of startup keywords, 206 of India terms)
IsScoredText(title, content) ==
  \/ /\ title \in {"", "Fintech funding in Noida"}
     /\ \E n \in 0..MaxWords : \E seq \in [1..n -> ContentWords] :
          content = JoinWords(seq, 1)
  \/ /\ title \in {Rep("vc", 149), Rep("noida", 102)}
     /\ content \in {"", "vc", "noida", "vc pune noida"}

ScoringInit ==
  /\ CuratorInit
  /\ SelectorIdle
  /\ CollectorIdle
  /\ ScriptIdle
  /\ MainIdle
  /\ UtilityIdle
  /\ art_pc = "ready"
  /\ IsScoredText(art_title, art_content)
  /\ art_url \in {"u1", "u2"}
  /\ art_summary = ""
  /\ art_score = 0
  /\ art_categories = <<>>
  /\ art_keywords = <<>>

\* article.relevance_score = self._calculate_relevance_score(article);
\* article.keywords = self._extract_keywords(article);
\* article.categories = self._classify_article(article)
ScoreAndClassify ==
  /\ art_pc = "ready"
  /\ LET article == [title |-> art_title, content |-> art_content, url |-> art_url,
                     source |-> "Inc42", published_date |-> clock]
     IN  /\ art_score' = _calculate_relevance_score(article)
         /\ art_categories' = _classify_article(article)
         /\ art_keywords' = ListOfSet(AppendedKeywords(ArticleText(article)))
  /\ art_pc' = "done"
  /\ UNCHANGED <<art_title, art_content, art_url, art_summary>>
  /\ UNCHANGED <<curatorVars, selectorVars, collectorVars, scriptVars, mainVars, utilityVars>>

ScoringNext == ScoreAndClassify

ScoringSpec == ScoringInit /\ [][ScoringNext]_vars

(***************************************************************************)
(* Properties of the scores                                                *)
(***************************************************************************)

\* the positions of the text at which the keyword occurs as a substring
OccurrencesAt(kw, text) ==
  {i \in 1..(Len(text) - Len(kw) + 1) : SubSeq(text, i, i + Len(kw) - 1) = kw}

RECURSIVE LeftCount(_, _)
\* the number of the positions counted from the left, a position being
\* skipped when it lies within the occurrence counted before it
LeftCount(positions, len) ==
  IF positions = {} THEN 0
  ELSE LET p == CHOOSE q \in positions : \A r \in positions : q <= r
       IN  1 + LeftCount({q \in positions : q >= p + len}, len)

\* the number of occurrences of the keyword that do not overlap, counted from
\* the left
DisjointOccurrences(kw, text) ==
  LET positions == OccurrencesAt(kw, text)
  IN  IF \A p \in positions : \A d \in 1..(Len(kw) - 1) : p + d \notin positions
        THEN Cardinality(positions)
        ELSE LeftCount(positions, Len(kw))

\* the lower-cased title+content of the Article scored
ScoredText == Lower(art_title \o " " \o art_content)

\* the sum, over every entry of the table, of the number of all its
\* occurrences in the text
OccurrenceSum(table, text) ==
  SumOver([k \in DOMAIN table |-> Cardinality(OccurrencesAt(Lower(table[k]), text))],
          1, Len(table))

\* the sum, over every entry of the table, of the number of its occurrences
\* that do not overlap
DisjointSum(table, text) ==
  SumOver([k \in DOMAIN table |-> DisjointOccurrences(Lower(table[k]), text)],
          1, Len(table))

\* 0.7*min(S/(3*|startup table|),1) + 0.3*min(I/(2*|India table|),1), as a
\* numerator over ScoreDen
FormulaScore(S, I) ==
  7 * Min(S, 3 * Len(startup_keywords)) * (2 * Len(indian_startup_terms))
    + 3 * Min(I, 2 * Len(indian_startup_terms)) * (3 * Len(startup_keywords))

\* C19 (as claimed): the score is the formula of S and I, the sums over the
\* tables of the numbers of substring occurrences of the entries in the
\* lower-cased title+content.
C19_RelevanceFormula_Claimed ==
  art_pc = "done" =>
    art_score = FormulaScore(OccurrenceSum(startup_keywords, ScoredText),
                             OccurrenceSum(indian_startup_terms, ScoredText))

\* C19 (amended): the score is the formula of S and I, the sums over the
\* tables of the numbers of occurrences of the entries that do not overlap
\* (counted from the left, as str.count counts), in the lower-cased
\* title+content; it depends on title and content only.
C19_RelevanceFormula_Disjoint ==
  art_pc = "done" =>
    art_score = FormulaScore(DisjointSum(startup_keywords, ScoredText),
                             DisjointSum(indian_startup_terms, ScoredText))

\* 'payments' is no startup keyword; 'startup' three times counts 3 for
\* 'startup' and 3 for the 'ar' within it: 6/150 * 0.7
C19_Witness ==
  /\ art_pc = "done"
  /\ art_title = ""
  /\ art_content = "Startup Startup Startup"
  /\ art_url = "u2"
  /\ DisjointSum(startup_keywords, ScoredText) = 6
  /\ art_score = 7 * 6 * 206

\* the sum of the occurrence counts of the keywords of the category
CategoryOccurrences(category, text) == OccurrenceSum(category_keywords[category], text)

\* C20 (as claimed): a named category is assigned if and only if the sum over
\* its keywords of their substring occurrence counts in the lower-cased
\* title+content is at least 2.
C20_CategoryThreshold_Claimed ==
  art_pc = "done" =>
    \A c \in DOMAIN CategoryNames :
      (\E i \in DOMAIN art_categories : art_categories[i] = CategoryNames[c])
        <=> CategoryOccurrences(CategoryNames[c], ScoredText) >= 2

\* C20 (amended): a named category is assigned if and only if the sum over its
\* keywords of the counts of their occurrences that do not overlap is at
\* least 2; a total of exactly 1 never assigns it, one keyword occurring
\* twice suffices.
C20_CategoryThreshold_Disjoint ==
  art_pc = "done" =>
    \A c \in DOMAIN CategoryNames :
      (\E i \in DOMAIN art_categories : art_categories[i] = CategoryNames[c])
        <=> DisjointSum(category_keywords[CategoryNames[c]], ScoredText) >= 2

\* 'payments' twice assigns fintech; 'b2b' once, in 'B2B2B', does not assign
\* enterprise
C20_Witness ==
  /\ art_pc = "done"
  /\ art_title = ""
  /\ art_content = "payments B2B2B payments"
  /\ art_categories = <<"fintech">>
  /\ DisjointSum(category_keywords["enterprise"], ScoredText) = 1
  /\ DisjointOccurrences("payments", ScoredText) = 2

\* the entries of the two tables
LexiconTerms ==
  {startup_keywords[k] : k \in DOMAIN startup_keywords}
    \cup {indian_startup_terms[k] : k \in DOMAIN indian_startup_terms}

\* C21: _extract_keywords returns exactly the terms of the startup and India
\* tables that occur at least once as a substring of the lower-cased
\* title+content, each of them once, however often it occurs and also when
\* the table lists it twice.
C21_KeywordsPresentOnce ==
  art_pc = "done" =>
    /\ DOMAIN art_keywords
         = {t \in LexiconTerms : OccurrencesAt(Lower(t), ScoredText) # {}}
    /\ \A t \in DOMAIN art_keywords : art_keywords[t] = 1

\* 'startup' occurs three times and 'noida', listed twice in the India table,
\* once: each is returned once
C21_Witness ==
  /\ art_pc = "done"
  /\ art_title = "Fintech funding in Noida"
  /\ art_content = "Startup Startup Startup"
  /\ DOMAIN art_keywords = {"startup", "AR", "fintech", "funding", "noida"}
  /\ art_keywords["noida"] = 1
  /\ Cardinality(OccurrencesAt("startup", ScoredText)) = 3

(***************************************************************************)
(* One curator over several calls of process_articles, with records that   *)
(* are skipped or fail before a record of the same url                     *)
(***************************************************************************)

\* the longest batch of a call of the session
MaxSession == 2

\* records of the url u1 that are admitted, of low relevance, without content
\* and failing in _generate_summary, and a record of the url u2
SessionRecords ==
  { Dated("u1"),
    Dated("u2"),
    [title |-> TitlePlain, content |-> ContentBelow, url |-> "u1", source |-> "YourStory"],
    [title |-> TitleA, content |-> "", url |-> "u1", source |-> "Inc42"],
    [title |-> TitleRich, content |-> "5", url |-> "u1", source |-> "Inc42",
     types |-> [content |-> "int"]] }

\* a call of process_articles on the curator, whatever it has seen so far
SessionProcess ==
  /\ \E n \in 0..MaxSession : \E batch \in [1..n -> SessionRecords] :
       process_articles(PyList(batch))
  /\ UNCHANGED scriptVars

SessionNext == SessionProcess

SessionSpec == Init /\ [][SessionNext]_vars

\* the urls of the Articles of the list
UrlsOf(articles) == {articles[i].url : i \in DOMAIN articles}

\* C28: after any sequence of process_articles calls, processed_urls is
\* exactly the set of the urls of the Articles returned so far; a call adds
\* the urls of the Articles it returns and no other, so the url of a record
\* that was skipped or failed is not taken for seen when a later record
\* carries it.
C28_ProcessedUrlsAreReturnedUrls ==
  [][/\ processed_urls' = UrlsOf(returned')
     /\ processed_urls' = processed_urls \cup UrlsOf(processed_articles')
     /\ \A k \in DOMAIN trace' :
          trace'[k].branch = "duplicate"
            => \/ raw_articles'[k].url \in processed_urls
               \/ \E j \in 1..(k - 1) :
                    /\ trace'[j].branch = "processed"
                    /\ raw_articles'[j].url = raw_articles'[k].url]_vars

\* the record of u1 whose summary fails is followed in its batch by the
\* admitted record of u1, which is scored and returned
C28_Witness ==
  /\ Len(raw_articles) = 2
  /\ raw_articles[1].url = "u1" /\ raw_articles[2].url = "u1"
  /\ trace[1].branch = "failed"
  /\ trace[2].branch = "processed"
  /\ processed_urls = {"u1", "u2"}
  /\ Len(returned) = 2 /\ returned[2].url = "u1"

(***************************************************************************)
(* _parse_date applied to date strings                                     *)
(***************************************************************************)

\* what the date strings are made of: three numbers, a separator between
\* them, and a time behind them
DateNumbers == {"2024", "01", "1", "05", "06", "13", "15"}
DateSeparators == {"-", "/"}
DateTimes == {"", " 10:30:00", "T10:30:00", "T10:30:00Z"}

\* the text is a date string made of these
IsDateString(text) ==
  \E a \in DateNumbers, b \in DateNumbers, c \in DateNumbers :
    \E sep \in DateSeparators : \E time \in DateTimes :
      text = a \o sep \o b \o sep \o c \o time

ParseInit ==
  /\ CuratorInit
  /\ SelectorIdle
  /\ CollectorIdle
  /\ ArticleIdle
  /\ ScriptIdle
  /\ MainIdle
  /\ ReportIdle
  /\ DedupIdle
  /\ date_pc = "ready"
  /\ IsDateString(date_str)
  /\ parsed_date = <<>>

\* published_date = self._parse_date(date_str)
ParseDate ==
  /\ date_pc = "ready"
  /\ parsed_date' = _parse_date("str", date_str, clock)
  /\ date_pc' = "done"
  /\ UNCHANGED date_str
  /\ UNCHANGED <<reportVars, dedupVars>>
  /\ UNCHANGED <<curatorVars, selectorVars, collectorVars, articleVars, scriptVars, mainVars>>

ParseNext == ParseDate

ParseSpec == ParseInit /\ [][ParseNext]_vars

(***************************************************************************)
(* Properties of _parse_date                                               *)
(***************************************************************************)

\* the formats in the order 'YYYY-MM-DD HH:MM:SS', 'YYYY-MM-DD', 'DD/MM/YYYY',
\* 'MM/DD/YYYY', ISO-8601 with 'Z', ISO-8601 without 'Z'
FormatOrder == <<
  <<"%Y", "-", "%m", "-", "%d", " ", "%H", ":", "%M", ":", "%S">>,
  <<"%Y", "-", "%m", "-", "%d">>,
  <<"%d", "/", "%m", "/", "%Y">>,
  <<"%m", "/", "%d", "/", "%Y">>,
  <<"%Y", "-", "%m", "-", "%d", "T", "%H", ":", "%M", ":", "%S", "Z">>,
  <<"%Y", "-", "%m", "-", "%d", "T", "%H", ":", "%M", ":", "%S">> >>

\* the formats of the order under which the text parses
FormatsMatching(text) == {k \in DOMAIN FormatOrder : strptime(text, FormatOrder[k]).ok}

\* C24: _parse_date returns the parse of the first format, in the order
\* 'YYYY-MM-DD HH:MM:SS', 'YYYY-MM-DD', 'DD/MM/YYYY', 'MM/DD/YYYY', ISO-8601
\* with 'Z', ISO-8601 without 'Z', that matches; "2024-01-15 10:30:00" yields
\* year 2024, month 1, day 15, hour 10, minute 30; a string valid under both
\* DD/MM/YYYY and MM/DD/YYYY is read day-first.
C24_FirstFormatWins ==
  date_pc = "done" =>
    /\ \A k \in FormatsMatching(date_str) :
         (\A j \in FormatsMatching(date_str) : k <= j)
           => parsed_date = strptime(date_str, FormatOrder[k]).value
    /\ date_str = "2024-01-15 10:30:00"
         => /\ parsed_date.year = 2024 /\ parsed_date.month = 1 /\ parsed_date.day = 15
            /\ parsed_date.hour = 10 /\ parsed_date.minute = 30
    /\ {3, 4} \subseteq FormatsMatching(date_str)
         => parsed_date = strptime(date_str, <<"%d", "/", "%m", "/", "%Y">>).value

\* "05/06/2024" is valid day-first and month-first and is read as the 5th of
\* June
C24_Witness ==
  /\ date_pc = "done"
  /\ date_str = "05/06/2024"
  /\ FormatsMatching(date_str) = {3, 4}
  /\ parsed_date = DateTime(2024, 6, 5, 0, 0, 0, 0)

(***************************************************************************)
(* rank_articles, get_trending_keywords, generate_content_report           *)
(***************************************************************************)

\* date.toordinal(): the days from the 1st of January of the year 1 on
toordinal(d) ==
  LET y == d.year - 1
      before == <<0, 31, 59, 90, 120, 151, 181, 212, 243, 273, 304, 334>>
  IN  365 * y + (y \div 4) - (y \div 100) + (y \div 400)
        + before[d.month] + (IF d.month > 2 /\ DaysInMonth(d.year, 2) = 29 THEN 1 ELSE 0)
        + d.day

\* a < b of two datetimes
Earlier(a, b) ==
  LET SecondOfDay(d) == 3600 * d.hour + 60 * d.minute + d.second
  IN
  \/ toordinal(a) < toordinal(b)
  \/ /\ toordinal(a) = toordinal(b)
     /\ \/ SecondOfDay(a) < SecondOfDay(b)
        \/ SecondOfDay(a) = SecondOfDay(b) /\ a.microsecond < b.microsecond

\* (now - published_date).days: the whole days of the difference, rounded
\* down, so negative for a date after now
days_old(now, published_date) ==
  toordinal(now) - toordinal(published_date)
    - (IF Earlier(DateTime(1, 1, 1, now.hour, now.minute, now.second, now.microsecond),
                  DateTime(1, 1, 1, published_date.hour, published_date.minute,
                           published_date.second, published_date.microsecond))
         THEN 1 ELSE 0)

\* the days over which the recency decays
DecayDays == 30
\* the weights of relevance and recency, in tenths
RelevanceWeightTenths == 7
RecencyWeightTenths == 3

\* ranking_score that leaves the recency out
ranking_score_RelevanceOnly(article, now) ==
  RelevanceWeightTenths * DecayDays * article.relevance_score

\* ranking_score(article) times 10 * DecayDays * ScoreDen:
\* relevance_score * 0.7 + max(0, 1 - days_old / 30) * 0.3
ranking_score(article, now) ==
  RelevanceWeightTenths * DecayDays * article.relevance_score
    + RecencyWeightTenths * ScoreDen
        * Max(0, DecayDays - days_old(now, article.published_date))

\* e inserted into the list s of [key, item], sorted by descending key, behind
\* every entry whose key is not smaller
InsertByKey(s, e) ==
  LET pos == Cardinality({i \in DOMAIN s : s[i].key >= e.key})
  IN  SubSeq(s, 1, pos) \o <<e>> \o SubSeq(s, pos + 1, Len(s))

RECURSIVE SortKeyed(_, _, _)
SortKeyed(keyed, i, sorted) ==
  IF i > Len(keyed) THEN sorted
  ELSE SortKeyed(keyed, i + 1, InsertByKey(sorted, keyed[i]))

\* sorted(items, key=..., reverse=True) of the list of [key, item]: the items
\* by descending key, equal keys in the order of the list
sorted_reverse(keyed) ==
  LET Items(s) == [i \in DOMAIN s |-> s[i].item]
  IN  Items(SortKeyed(keyed, 1, <<>>))

\* ContentCuratorAgent.rank_articles at the time now
rank_articles(articles, now) ==
  sorted_reverse([i \in DOMAIN articles |->
                    [key |-> ranking_score(articles[i], now), item |-> articles[i]]])

\* the lists one behind the other, from list i on
RECURSIVE Concatenated(_, _)
Concatenated(lists, i) ==
  IF i > Len(lists) THEN <<>> ELSE lists[i] \o Concatenated(lists, i + 1)

\* counts[entry] = counts.get(entry, 0) + 1 for the entries from i on; the dict
\* is the list of its items <<entry, count>> in insertion order
RECURSIVE CountEntries(_, _, _)
CountEntries(entries, i, counts) ==
  IF i > Len(entries) THEN counts
  ELSE LET Counted(entry) ==
             IF \E k \in DOMAIN counts : counts[k][1] = entry
               THEN [k \in DOMAIN counts |->
                       IF counts[k][1] = entry THEN <<entry, counts[k][2] + 1>> ELSE counts[k]]
               ELSE Append(counts, <<entry, 1>>)
       IN  CountEntries(entries, i + 1, Counted(entries[i]))

\* the dict that counts the entries of the lists, as the list of its items
item_counts(lists) == CountEntries(Concatenated(lists, 1), 1, <<>>)

\* trending[:limit] of a limit that is not negative
Truncated(list, limit) == SubSeq(list, 1, Min(limit, Len(list)))

\* get_trending_keywords that returns the keywords in the order of the dict
get_trending_keywords_Unsorted(articles, limit) ==
  Truncated(item_counts([i \in DOMAIN articles |-> articles[i].keywords]), limit)

\* ContentCuratorAgent.get_trending_keywords
get_trending_keywords(articles, limit) ==
  LET Sorted(items) == sorted_reverse([k \in DOMAIN items |-> [key |-> items[k][2], item |-> items[k]]])
  IN  Truncated(Sorted(item_counts([i \in DOMAIN articles |-> articles[i].keywords])),
                limit)

\* limit of get_trending_keywords where the caller gives none
DefaultLimit == 10
\* the articles the report lists
TopArticles == 5

\* numerator / denominator rounded to a whole number, the half to even
RoundHalfEven(numerator, denominator) ==
  LET q == numerator \div denominator
      r == numerator % denominator
  IN  IF 2 * r > denominator \/ (2 * r = denominator /\ q % 2 = 1) THEN q + 1 ELSE q

\* ContentCuratorAgent.generate_content_report at the time now
generate_content_report(articles, now) ==
  IF articles = <<>> THEN [error |-> "No articles to analyze"]
  ELSE
    LET Entry(article) == [title |-> article.title, url |-> article.url,
                           relevance_score |-> article.relevance_score,
                           categories |-> article.categories]
        Top(ranking) == [i \in 1..Min(TopArticles, Len(ranking)) |-> Entry(ranking[i])]
        Extreme(first) ==
          CHOOSE i \in DOMAIN articles : \A j \in DOMAIN articles :
            IF first THEN ~Earlier(articles[j].published_date, articles[i].published_date)
                     ELSE ~Earlier(articles[i].published_date, articles[j].published_date)
    IN  [total_articles |-> Len(articles),
         \* round(avg_relevance, 3) in thousandths: relevance_score is in
         \* ScoreDen-ths
         average_relevance_score |->
           RoundHalfEven(SumOver([i \in DOMAIN articles |-> articles[i].relevance_score],
                                 1, Len(articles)),
                         (ScoreDen \div 1000) * Len(articles)),
         category_distribution |->
           item_counts([i \in DOMAIN articles |-> articles[i].categories]),
         source_distribution |->
           item_counts([i \in DOMAIN articles |-> <<articles[i].source>>]),
         trending_keywords |-> get_trending_keywords(articles, DefaultLimit),
         date_range |-> [earliest |-> isoformat(articles[Extreme(TRUE)].published_date),
                         latest |-> isoformat(articles[Extreme(FALSE)].published_date)],
         top_articles |-> Top(rank_articles(articles, now))]

(***************************************************************************)
(* The report over lists of articles                                       *)
(***************************************************************************)

MaxReport == 6
MaxLimit == 2

\* a list of keywords longer than the default limit
ElevenKeywords ==
  <<"startup", "funding", "fintech", "unicorn", "ipo", "saas", "edtech", "healthtech",
    "bangalore", "mumbai", "pune">>

\* Articles of distinct urls, as process_articles returns them: a week old;
\* older than the decay; dated a day ahead; one of the relevance and age of
\* the first, with many keywords; one of another relevance and age but the
\* same combined score; one of today
ReportArticles == {
  [title |-> "Zepto raises funds", url |-> "u1", source |-> "Inc42",
   published_date |-> DateTime(2026, 10, 28, 18, 0, 0, 123456), relevance_score |-> 154500,
   categories |-> <<"fintech">>, keywords |-> <<"startup", "funding">>],
  [title |-> "Razorpay files for IPO", url |-> "u2", source |-> "YourStory",
   published_date |-> DateTime(2026, 10, 1, 9, 0, 0, 0), relevance_score |-> 185400,
   categories |-> <<"fintech", "ecommerce">>, keywords |-> <<"funding", "startup", "fintech">>],
  [title |-> "Pune edtech opens", url |-> "u3", source |-> "Inc42",
   published_date |-> DateTime(2026, 11, 5, 9, 0, 0, 0), relevance_score |-> 92700,
   categories |-> <<>>, keywords |-> <<"edtech", "pune">>],
  [title |-> "Unicorn round-up", url |-> "u4", source |-> "Entrackr",
   published_date |-> DateTime(2026, 10, 28, 10, 0, 0, 0), relevance_score |-> 154500,
   categories |-> <<"fintech">>, keywords |-> ElevenKeywords],
  [title |-> "Paytm lends again", url |-> "u5", source |-> "YourStory",
   published_date |-> DateTime(2026, 10, 21, 12, 0, 0, 0), relevance_score |-> 185400,
   categories |-> <<"fintech">>, keywords |-> <<"fintech">>],
  [title |-> "Flipkart IPO funding", url |-> "u6", source |-> "Inc42",
   published_date |-> DateTime(2026, 11, 4, 10, 0, 0, 0), relevance_score |-> 309000,
   categories |-> <<"ecommerce", "fintech">>, keywords |-> <<"ipo", "funding">>] }

\* the articles of the list have distinct urls
DistinctUrls(articles) ==
  \A i, j \in DOMAIN articles : articles[i].url = articles[j].url => i = j

ReportInit ==
  /\ CuratorInit
  /\ SelectorIdle
  /\ CollectorIdle
  /\ ArticleIdle
  /\ ScriptIdle
  /\ MainIdle
  /\ DateIdle
  /\ DedupIdle
  /\ report_pc = "ready"
  /\ \E n \in 0..MaxReport : report_articles \in [1..n -> ReportArticles]
  /\ DistinctUrls(report_articles)
  /\ report_limit = 0
  /\ trending = <<>>
  /\ ranked = <<>>
  /\ report = <<>>

ReportRest ==
  /\ UNCHANGED report_articles
  /\ UNCHANGED <<dateVars, dedupVars>>
  /\ UNCHANGED <<curatorVars, selectorVars, collectorVars, articleVars, scriptVars, mainVars>>

\* curator.rank_articles(articles)
RankArticles ==
  /\ report_pc = "ready"
  /\ ranked' = rank_articles(report_articles, clock)
  /\ report_pc' = "ranked"
  /\ UNCHANGED <<report_limit, trending, report>>
  /\ ReportRest

\* curator.get_trending_keywords(articles, limit)
GetTrendingKeywords ==
  /\ report_pc = "ready"
  /\ \E limit \in 0..MaxLimit :
       /\ report_limit' = limit
       /\ trending' = get_trending_keywords(report_articles, limit)
  /\ report_pc' = "trended"
  /\ UNCHANGED <<ranked, report>>
  /\ ReportRest

\* curator.generate_content_report(articles)
GenerateContentReport ==
  /\ report_pc = "ready"
  /\ report' = generate_content_report(report_articles, clock)
  /\ report_pc' = "reported"
  /\ UNCHANGED <<report_limit, trending, ranked>>
  /\ ReportRest

ReportNext == RankArticles \/ GetTrendingKeywords \/ GenerateContentReport

ReportSpec == ReportInit /\ [][ReportNext]_vars

(***************************************************************************)
(* Properties of the report                                                *)
(***************************************************************************)

\* the keywords the articles list
KeywordsListed(articles) ==
  UNION {{articles[i].keywords[j] : j \in DOMAIN articles[i].keywords} : i \in DOMAIN articles}

\* the number of articles that list the keyword
ArticlesListing(articles, keyword) ==
  Cardinality({i \in DOMAIN articles :
                 \E j \in DOMAIN articles[i].keywords : articles[i].keywords[j] = keyword})

\* where a scan of the articles sees the keyword first: <<article, position>>
FirstSeen(articles, keyword) ==
  LET i == Least({a \in DOMAIN articles :
                    \E j \in DOMAIN articles[a].keywords : articles[a].keywords[j] = keyword})
  IN  <<i, Least({j \in DOMAIN articles[i].keywords : articles[i].keywords[j] = keyword})>>

\* the keywords of the pairs are distinct keywords of the articles, each with
\* the number of articles listing it, in non-increasing order of that number,
\* equal numbers in first-seen order; no keyword left out comes before a
\* listed one in that order; there are min(limit, distinct keywords) pairs
IsTrending(pairs, articles, limit) ==
  LET Ordered(listing, seen) ==
        LET Precedes(k1, k2) ==
              \/ listing[k1] > listing[k2]
              \/ /\ listing[k1] = listing[k2]
                 /\ \/ seen[k1][1] < seen[k2][1]
                    \/ seen[k1][1] = seen[k2][1] /\ seen[k1][2] < seen[k2][2]
        IN  /\ Len(pairs) = Min(limit, Cardinality(DOMAIN listing))
            /\ \A p \in DOMAIN pairs :
                 /\ pairs[p][1] \in DOMAIN listing
                 /\ pairs[p][2] = listing[pairs[p][1]]
                 /\ \A k \in DOMAIN listing \ {pairs[q][1] : q \in DOMAIN pairs} :
                      Precedes(pairs[p][1], k)
            /\ \A p, q \in DOMAIN pairs : p < q => Precedes(pairs[p][1], pairs[q][1])
  IN  Ordered([k \in KeywordsListed(articles) |-> ArticlesListing(articles, k)],
              [k \in KeywordsListed(articles) |-> FirstSeen(articles, k)])

\* C25: get_trending_keywords returns min(limit, number of distinct keywords)
\* pairs (keyword, count), count the number of articles listing the keyword,
\* in non-increasing count order, keywords of equal counts in the order in
\* which the scan of the articles saw them first; the report holds the pairs
\* of the default limit 10.
C25_TrendingKeywords ==
  /\ report_pc = "trended" => IsTrending(trending, report_articles, report_limit)
  /\ (report_pc = "reported" /\ report_articles # <<>>)
       => IsTrending(report.trending_keywords, report_articles, DefaultLimit)

\* of the 5 keywords of three articles the limit 2 keeps funding and startup,
\* each listed by 2 articles, funding seen first
C25_Witness ==
  /\ report_pc = "trended"
  /\ report_limit = 2
  /\ [i \in DOMAIN report_articles |-> report_articles[i].url] = <<"u2", "u3", "u1">>
  /\ Cardinality(KeywordsListed(report_articles)) = 5
  /\ trending = <<<<"funding", 2>>, <<"startup", 2>>>>

\* 0.7*relevance_score + 0.3*max(0, 1 - days_old/30) of each article of the
\* list, times 10 * 30 * ScoreDen
CombinedScores(articles, now) ==
  [k \in DOMAIN articles |->
     7 * 30 * articles[k].relevance_score
       + 3 * ScoreDen * Max(0, 30 - days_old(now, articles[k].published_date))]

\* the place of each article of the list in the claimed order: behind the
\* articles of a higher combined score and the earlier ones of the same
PlaceInOrder(articles, now) ==
  LET Places(combined) ==
        [k \in DOMAIN articles |->
           1 + Cardinality({j \in DOMAIN articles :
                              \/ combined[j] > combined[k]
                              \/ combined[j] = combined[k] /\ j < k})]
  IN  Places(CombinedScores(articles, now))

\* C26: rank_articles returns the articles of its input in non-increasing
\* order of 0.7*relevance_score + 0.3*max(0, 1 - days_old/30), equal scores in
\* input order, and leaves the input list as it is; top_articles of the report
\* are the first min(5, total) articles of that order.
C26_RankedByCombinedScore ==
  [][/\ report_articles' = report_articles
     /\ report_pc' = "ranked" =>
          LET InOrder(place) ==
                /\ Len(ranked') = Len(report_articles)
                /\ \A k \in DOMAIN report_articles : ranked'[place[k]] = report_articles[k]
          IN  InOrder(PlaceInOrder(report_articles, clock))
     /\ (report_pc' = "reported" /\ report_articles # <<>>) =>
          LET Listed(place) ==
                /\ Len(report'.top_articles) = Min(5, Len(report_articles))
                /\ \A k \in DOMAIN report_articles :
                     place[k] <= 5 =>
                       report'.top_articles[place[k]]
                         = [title |-> report_articles[k].title,
                            url |-> report_articles[k].url,
                            relevance_score |-> report_articles[k].relevance_score,
                            categories |-> report_articles[k].categories]
          IN  Listed(PlaceInOrder(report_articles, clock))]_vars

\* six articles: the article of today first, the three of the same combined
\* score in input order, the article dated ahead, and the old article of the
\* second highest relevance last
C26_Witness ==
  /\ report_pc = "ranked"
  /\ [i \in DOMAIN report_articles |-> report_articles[i].url]
       = <<"u2", "u5", "u3", "u4", "u1", "u6">>
  /\ [i \in DOMAIN ranked |-> ranked[i].url] = <<"u6", "u5", "u4", "u1", "u3", "u2">>

(***************************************************************************)
(* NewsCollectorAgent._remove_duplicates                                   *)
(***************************************************************************)

\* the character is \w or \s (the titles are ASCII)
IsWordOrSpace(c) ==
  \/ c \in Whitespace
  \/ c = "_"
  \/ \E k \in 1..Len(LowerCase) : c \in {SubSeq(LowerCase, k, k), SubSeq(UpperCase, k, k)}
  \/ \E k \in 1..Len(Digits) : c = SubSeq(Digits, k, k)

\* re.sub(r'[^\w\s]', '', text), from position i on
RECURSIVE RemovePunctuation(_, _)
RemovePunctuation(text, i) ==
  IF i > Len(text) THEN ""
  ELSE (IF IsWordOrSpace(CharAt(text, i)) THEN CharAt(text, i) ELSE "")
         \o RemovePunctuation(text, i + 1)

\* re.sub(r'\s+', ' ', text), from position i on: every run of whitespace
\* becomes one blank
RECURSIVE CollapseWhitespace(_, _)
CollapseWhitespace(text, i) ==
  IF i > Len(text) THEN ""
  ELSE IF CharAt(text, i) \in Whitespace
    THEN " " \o CollapseWhitespace(text, SkipWhitespace(text, i))
    ELSE CharAt(text, i) \o CollapseWhitespace(text, i + 1)

\* str.strip() of a text whose whitespace is single blanks
Strip(text) ==
  LET lo == IF CharAt(text, 1) = " " THEN 2 ELSE 1
      hi == IF CharAt(text, Len(text)) = " " THEN Len(text) - 1 ELSE Len(text)
  IN  SubSeq(text, lo, hi)

\* the normalized title of lines 216-217
normalized_title(title) == Strip(CollapseWhitespace(RemovePunctuation(Lower(title), 1), 1))

\* the shortest normalized title kept is longer than this
MinTitleLength == 10

\* the condition of line 219
Unseen(normalized, seen_titles) ==
  normalized \notin seen_titles /\ Len(normalized) > MinTitleLength

\* the loop of _remove_duplicates from article i on
RECURSIVE RemoveLoop(_, _, _, _)
RemoveLoop(articles, i, seen_titles, unique) ==
  IF i > Len(articles) THEN unique
  ELSE LET Step(normalized) ==
             IF Unseen(normalized, seen_titles)
               THEN RemoveLoop(articles, i + 1, seen_titles \cup {normalized},
                               Append(unique, articles[i]))
               ELSE RemoveLoop(articles, i + 1, seen_titles, unique)
       IN  Step(normalized_title(articles[i].title))

\* NewsCollectorAgent._remove_duplicates
_remove_duplicates(articles) == RemoveLoop(articles, 1, {}, <<>>)

(***************************************************************************)
(* _remove_duplicates over lists of collected articles                     *)
(***************************************************************************)

MaxTitles == 3

\* titles as _clean_text leaves them: two that differ in case, punctuation
\* and spacing only, two short ones, and two others
CollectedTitles ==
  {"Zepto raises $200M!", "zepto  raises 200m", "Zepto IPO", "", "Byju's cuts 500 jobs",
   "OYO files for IPO."}

DedupInit ==
  /\ CuratorInit
  /\ SelectorIdle
  /\ CollectorIdle
  /\ ArticleIdle
  /\ ScriptIdle
  /\ MainIdle
  /\ DateIdle
  /\ ReportIdle
  /\ dedup_pc = "ready"
  /\ \E n \in 0..MaxTitles : \E titles \in [1..n -> CollectedTitles] :
       all_articles = [i \in 1..n |-> [title |-> titles[i], url |-> "u" \o FormatNumber(i)]]
  /\ unique_articles = <<>>

\* unique_articles = self._remove_duplicates(all_articles)
RemoveDuplicates ==
  /\ dedup_pc = "ready"
  /\ unique_articles' = _remove_duplicates(all_articles)
  /\ dedup_pc' = "done"
  /\ UNCHANGED all_articles
  /\ UNCHANGED <<dateVars, reportVars>>
  /\ UNCHANGED <<curatorVars, selectorVars, collectorVars, articleVars, scriptVars, mainVars>>

DedupNext == RemoveDuplicates

DedupSpec == DedupInit /\ [][DedupNext]_vars

\* the articles of the list that are the first of their normalized title
FirstOfTitle(articles) ==
  SelectSeq([i \in DOMAIN articles |-> [index |-> i, article |-> articles[i]]],
            LAMBDA e : \A j \in 1..(e.index - 1) :
                         normalized_title(articles[j].title) # normalized_title(e.article.title))

\* C27: _remove_duplicates removes articles only because of title
\* duplication: its output is, in input order, the first article of each
\* group of articles of one normalized title, so every article whose
\* normalized title occurs once is kept.
C27_OnlyTitleDuplicatesRemoved_Claimed ==
  dedup_pc = "done" =>
    /\ unique_articles = [k \in DOMAIN FirstOfTitle(all_articles) |->
                            FirstOfTitle(all_articles)[k].article]
    /\ \A i \in DOMAIN all_articles :
         (\A j \in DOMAIN all_articles :
            normalized_title(all_articles[j].title) = normalized_title(all_articles[i].title)
              => j = i)
           => \E k \in DOMAIN unique_articles : unique_articles[k] = all_articles[i]

====
